---- MODULE Spec2Model ----
(***************************************************************************)
(* Gmail incremental sync and attachment ingestion (GmailService,          *)
(* DriveService) as a state machine.  The relational store (Token, Email,  *)
(* Attachment), the mail provider (mailbox and change log) and the object  *)
(* store (folders, files) are the shared state; every invocation of        *)
(* handleCron, handlePushNotification or the initial-sync endpoint is a    *)
(* round whose position and local variables are kept in `round`.  A round  *)
(* yields at each await of the code, so rounds interleave there.           *)
(***************************************************************************)
EXTENDS Integers, Sequences, FiniteSets, TLC

\* ------------------------------------------------------------------ bounds
\* Number of messages the provider ever delivers to the mailbox.
MaxMsgs == 2
\* The pages of a listing whose request may be the one that fails.
MaxFailPage == 2

\* ------------------------------------------------------- program constants
\* Token.historyId is nullable; 0 stands for null, provider cursors are >= 1.
NoCursor == 0
\* getRecentMessages: page size.
batchSize == 50
\* fetchEmails: listing caps.
RoutineMax == 100
InitialSyncMax == 2000
FallbackInitialMax == 1000

\* Concurrent invocations of the trigger handlers.
Rounds == {1, 2}
Min(a, b) == IF a < b THEN a ELSE b

Reverse(s) == [i \in 1 .. Len(s) |-> s[Len(s) + 1 - i]]

Range(s) == {s[i] : i \in 1 .. Len(s)}

\* n copies of the character c.
Repeat(c, n) == [i \in 1 .. n |-> c]

\* ------------------------------------------------------- provider messages
\* A MIME part (gmail_v1.Schema$MessagePart).  "" stands for an absent
\* string, 0 for an absent size; hasParts tells a present child list from an
\* absent one.
Leaf(mime, fname, disp, attId, size, data) ==
    [mimeType |-> mime, filename |-> fname,
     headers |-> IF disp = "" THEN <<>>
                 ELSE <<[name |-> "Content-Disposition", value |-> disp]>>,
     body |-> [attachmentId |-> attId, size |-> size, data |-> data],
     hasParts |-> FALSE, parts |-> <<>>]

Multi(mime, hdrs, children) ==
    [mimeType |-> mime, filename |-> "", headers |-> hdrs,
     body |-> [attachmentId |-> "", size |-> 0, data |-> ""],
     hasParts |-> TRUE, parts |-> children]

\* The identifiers of the messages that consist of one leaf part, one for
\* every combination of the classifier's signals, and of the messages that
\* probe the flattener.
LeafIds == 10 .. 33
TreeIds == 34 .. 36

\* Leaf v: attachment reference present or absent; disposition absent, inline
\* or attachment; filename present or absent; declared size 0 or positive.
LeafVariant(v) ==
    Leaf("application/octet-stream",
         IF (v \div 6) % 2 = 1 THEN "v.bin" ELSE "",
         CASE (v \div 2) % 3 = 0 -> ""
           [] (v \div 2) % 3 = 1 -> "inline"
           [] OTHER -> "attachment",
         IF v % 2 = 1 THEN "att-v" ELSE "",
         IF (v \div 12) % 2 = 1 THEN 4 ELSE 0,
         "")

\* Part trees: three levels of nesting with two attachments; a child list
\* that is present but empty; an empty child list between two leaves.
TreeVariant(m) ==
    CASE m = 34 ->
           Multi("multipart/mixed", <<>>,
                 <<Leaf("text/plain", "", "", "", 5, "cGxhaW4="),
                   Multi("multipart/related", <<>>,
                         <<Leaf("image/gif", "x.gif", "attachment", "att-x", 6, ""),
                           Multi("multipart/alternative", <<>>,
                                 <<Leaf("text/html", "", "", "", 9, "PGI+aDwvYj4=")>>)>>),
                   Leaf("application/zip", "y.zip", "", "att-y", 8, "")>>)
      [] m = 35 -> Multi("multipart/mixed", <<>>, <<>>)
      [] OTHER ->
           Multi("multipart/mixed", <<>>,
                 <<Leaf("text/plain", "", "", "", 5, "cGxhaW4="),
                   Multi("multipart/alternative", <<>>, <<>>),
                   Leaf("text/csv", "c.csv", "attachment", "att-c", 4, "")>>)

\* Messages with two attachments each whose Subject header exercises the
\* folder naming.  Header values are sequences of characters.
SubjectIds == 40 .. 45

SubjectVariant(m) ==
    CASE m = 40 -> <<"E", "m", "a", "i", "l", " ", "A", "t", "t", "a", "c", "h", "m", "e", "n", "t", "s">>
      [] m = 41 -> Repeat("a", 99) \o <<" ", "b">>
      [] m = 42 -> <<" ", "<", "a", ">", "?", " ">>
      [] m = 43 -> <<"?", "*", "|">>
      [] m = 44 -> <<":", "\\", "/", "\"">> \o Repeat("b", 120)
      [] OTHER -> <<"\t", "R", "e", ":", " ", "x", "\n">>

\* Messages that exercise the header lookup and the body loop: headers that
\* repeat in different spellings, several text leaves, leaves without data,
\* a message without headers, and a text attachment that carries its content
\* inline.
BodyIds == 50 .. 53

BodyVariant(m) ==
    CASE m = 50 ->
           Multi("multipart/mixed",
                 <<[name |-> "SUBJECT", value |-> <<"R", "e", " ", "A">>],
                   [name |-> "Subject", value |-> <<"B">>],
                   [name |-> "from", value |-> <<"a", "@", "x">>],
                   [name |-> "From", value |-> <<"b", "@", "x">>],
                   [name |-> "TO", value |-> <<"c", "@", "x">>],
                   [name |-> "cc", value |-> <<"d", "@", "x">>],
                   [name |-> "Cc", value |-> <<"e", "@", "x">>]>>,
                 <<Leaf("text/plain", "", "", "", 5, "Zmlyc3Q="),
                   Multi("multipart/alternative", <<>>,
                         <<Leaf("text/html", "", "", "", 9, "PGI+aDwvYj4="),
                           Leaf("text/plain", "", "", "", 4, "bGFzdA==")>>),
                   Leaf("text/html", "", "", "", 8, "PGk+eDwvaT4="),
                   Leaf("text/plain", "", "", "", 0, ""),
                   Leaf("image/png", "", "inline", "", 3, "aGk=")>>)
      [] m = 51 ->
           Multi("multipart/alternative", <<>>,
                 <<Leaf("text/html", "", "", "", 9, "PGI+aDwvYj4=")>>)
      [] m = 52 ->
           Multi("multipart/mixed",
                 <<[name |-> "subject", value |-> <<>>],
                   [name |-> "Subject", value |-> <<"B">>],
                   [name |-> "Bcc", value |-> <<"f", "@", "x">>],
                   [name |-> "BCC", value |-> <<"g", "@", "x">>]>>,
                 <<Leaf("text/plain", "", "", "", 5, "cGxhaW4="),
                   Leaf("text/html", "", "", "", 0, "")>>)
      [] OTHER ->
           Multi("multipart/mixed",
                 <<[name |-> "Subject", value |-> <<"N", "o", "t", "e", "s">>]>>,
                 <<Leaf("text/plain", "", "", "", 5, "cGxhaW4="),
                   Leaf("text/plain", "n.txt", "attachment", "", 4, "bGFzdA=="),
                   Leaf("text/html", "p.html", "", "", 8, "PGk+eDwvaT4=")>>)

\* The messages of the mailbox.  Message 3k+1 nests an alternative body and
\* carries two attachments, 3k+2 carries one, 3k carries none.
Payload(m) ==
    CASE m \in LeafIds -> LeafVariant(m - 10)
      [] m \in TreeIds -> TreeVariant(m)
      [] m \in BodyIds -> BodyVariant(m)
      [] m \in SubjectIds ->
           Multi("multipart/mixed",
                 <<[name |-> "Subject", value |-> SubjectVariant(m)]>>,
                 <<Leaf("application/pdf", "a.pdf", "attachment", "att-a", 7, ""),
                   Leaf("image/png", "b.png", "", "att-b", 3, "")>>)
      [] m % 3 = 1 ->
           Multi("multipart/mixed",
                 <<[name |-> "subject", value |-> <<"Q", "4", ":", " ", "P", "l", "a", "n">>],
                   [name |-> "From", value |-> <<"a", "@", "x">>]>>,
                 <<Multi("multipart/alternative", <<>>,
                         <<Leaf("text/plain", "", "", "", 5, "cGxhaW4="),
                           Leaf("text/html", "", "", "", 9, "PGI+aDwvYj4=")>>),
                   Leaf("application/pdf", "a.pdf", "attachment; filename=a.pdf", "att-a", 7, ""),
                   Leaf("image/png", "b.png", "", "att-b", 3, "")>>)
      [] m % 3 = 2 ->
           Multi("multipart/mixed",
                 <<[name |-> "Subject", value |-> <<"I", "n", "v", "o", "i", "c", "e">>]>>,
                 <<Leaf("text/plain", "", "", "", 5, "cGxhaW4="),
                   Leaf("text/csv", "c.csv", "attachment", "att-c", 4, "")>>)
      [] OTHER ->
           Leaf("text/plain", "", "", "", 2, "aGk=")

\* gmail.users.messages.get(id, format: full)
GetMessage(m) == [id |-> m, threadId |-> m, payload |-> Payload(m)]

\* ---------------------------------------------------------- pure functions
RECURSIVE extractParts(_)
RECURSIVE extractEach(_)
\* The loop over part.parts, concatenating each child's leaves.
extractEach(parts) ==
    IF parts = <<>> THEN <<>>
    ELSE extractParts(Head(parts)) \o extractEach(Tail(parts))

\* An absent child list makes the part a leaf; a present one (even an empty
\* one) is walked and the part itself is not returned.
extractParts(part) ==
    IF part.hasParts
    THEN extractEach(part.parts)
    ELSE <<part>>

ToLower(s) ==
    CASE s = "Content-Disposition" -> "content-disposition"
      [] s = "Subject" -> "subject"
      [] s = "SUBJECT" -> "subject"
      [] s = "From" -> "from"
      [] s = "To" -> "to"
      [] s = "TO" -> "to"
      [] s = "Cc" -> "cc"
      [] s = "Bcc" -> "bcc"
      [] s = "BCC" -> "bcc"
      [] OTHER -> s

\* String.prototype.includes('attachment') on the disposition values in use.
IncludesAttachment(v) == v \in {"attachment", "attachment; filename=a.pdf"}

\* Mutant of isAttachment: without the filename-and-size rule.
isAttachmentByReferenceOrDisposition(part) ==
    \/ part.body.attachmentId # ""
    \/ \E i \in 1 .. Len(part.headers) :
          /\ ToLower(part.headers[i].name) = "content-disposition"
          /\ IncludesAttachment(part.headers[i].value)

isAttachment(part) ==
    \/ part.body.attachmentId # ""
    \/ \E i \in 1 .. Len(part.headers) :
          /\ ToLower(part.headers[i].name) = "content-disposition"
          /\ \A j \in 1 .. (i - 1) :
                ToLower(part.headers[j].name) # "content-disposition"
          /\ IncludesAttachment(part.headers[i].value)
    \/ (part.filename # "" /\ part.body.size > 0)

\* Buffer.from(data, 'base64') on the provider's attachment payload.
Base64Decode(d) == <<"bytes", d[2], d[3]>>

\* gmail.users.messages.attachments.get: the base64 payload of one attachment.
AttachmentPayload(m, attId) == <<"base64", m, attId>>

\* downloadAttachment, given whether the remote call succeeded: the
\* AttachmentData, or <<>> for null.
downloadAttachment(m, part, ok) ==
    IF part.body.attachmentId = "" \/ part.filename = "" THEN <<>>
    ELSE IF ~ok THEN <<>>
    ELSE <<[fileName |-> part.filename,
            mimeType |-> IF part.mimeType = "" THEN "application/octet-stream"
                         ELSE part.mimeType,
            data |-> Base64Decode(AttachmentPayload(m, part.body.attachmentId))]>>

RECURSIVE ExtractLoopStopsAtFailure(_, _, _)
\* Mutant of ExtractLoop: the first failed download ends the extraction.
ExtractLoopStopsAtFailure(m, parts, okSet) ==
    IF parts = <<>> THEN <<>>
    ELSE IF isAttachment(Head(parts)) /\ Head(parts).body.attachmentId \notin okSet
    THEN <<>>
    ELSE (IF isAttachment(Head(parts))
          THEN downloadAttachment(m, Head(parts), TRUE)
          ELSE <<>>)
         \o ExtractLoopStopsAtFailure(m, Tail(parts), okSet)

RECURSIVE ExtractLoop(_, _, _)
\* extractAttachments' loop over the leaf parts; okSet holds the attachment
\* references whose download succeeds.
ExtractLoop(m, parts, okSet) ==
    IF parts = <<>> THEN <<>>
    ELSE (IF isAttachment(Head(parts))
          THEN downloadAttachment(m, Head(parts), Head(parts).body.attachmentId \in okSet)
          ELSE <<>>)
         \o ExtractLoop(m, Tail(parts), okSet)

extractAttachments(m, okSet) == ExtractLoop(m, extractParts(Payload(m)), okSet)

\* The attachment references of a message's parts.
AttachmentRefs(m) ==
    {p.body.attachmentId : p \in {q \in Range(extractParts(Payload(m))) : isAttachment(q)}}

\* Mutant of getHeader: the last matching header wins.
getHeaderOfLastMatch(headers, name) ==
    LET hit == {i \in 1 .. Len(headers) : ToLower(headers[i].name) = ToLower(name)}
    IN  IF hit = {} THEN <<>>
        ELSE headers[CHOOSE i \in hit : \A j \in hit : j <= i].value

\* processMessage's getHeader: headers.find by lower-cased name, `?.value || ""`.
getHeader(headers, name) ==
    LET hit == {i \in 1 .. Len(headers) : ToLower(headers[i].name) = ToLower(name)}
    IN  IF hit = {} THEN <<>>
        ELSE headers[CHOOSE i \in hit : \A j \in hit : i <= j].value

\* Buffer.from(data, 'base64').toString('utf8') on the body data in use.
DecodeBody(data) ==
    CASE data = "cGxhaW4=" -> "plain"
      [] data = "PGI+aDwvYj4=" -> "<b>h</b>"
      [] data = "aGk=" -> "hi"
      [] data = "Zmlyc3Q=" -> "first"
      [] data = "bGFzdA==" -> "last"
      [] data = "PGk+eDwvaT4=" -> "<i>x</i>"
      [] OTHER -> "?"

RECURSIVE BodyLoop(_, _)
\* processMessage's loop over the flattened parts.
BodyLoop(parts, emailDto) ==
    IF parts = <<>> THEN emailDto
    ELSE LET part == Head(parts)
             mimeType == part.mimeType
             bodyData == part.body.data
             decoded == DecodeBody(bodyData)
         IN  BodyLoop(Tail(parts),
                      IF bodyData # ""
                      THEN [emailDto EXCEPT
                              !.bodyText = IF mimeType = "text/plain" THEN decoded ELSE @,
                              !.bodyHtml = IF mimeType = "text/html" THEN decoded ELSE @]
                      ELSE emailDto)

\* processMessage: the CreateEmailDto of a fetched message (the date left out).
EmailDto(msg) ==
    LET headers == msg.payload.headers IN
    BodyLoop(extractParts(msg.payload),
             [messageId |-> msg.id, threadId |-> msg.threadId,
              subject |-> getHeader(headers, "Subject"),
              sender |-> getHeader(headers, "From"),
              recipients |-> getHeader(headers, "To"),
              cc |-> getHeader(headers, "Cc"),
              bcc |-> getHeader(headers, "Bcc"),
              bodyText |-> "", bodyHtml |-> ""])

NoSubject == <<"N", "o", " ", "S", "u", "b", "j", "e", "c", "t">>

\* processAttachments: the Subject header, 'No Subject' when absent or empty.
SubjectOf(m) ==
    LET hs == Payload(m).headers
        hit == {i \in 1 .. Len(hs) : ToLower(hs[i].name) = "subject"}
    IN  IF hit = {} THEN NoSubject
        ELSE LET first == CHOOSE i \in hit : \A j \in hit : i <= j
             IN  IF hs[first].value = <<>> THEN NoSubject ELSE hs[first].value

\* The character class of sanitizeFolderName's regular expression.
IllegalCharacters == {"<", ">", ":", "\"", "/", "\\", "|", "?", "*"}

\* The white space among the characters in use that String.prototype.trim removes.
WhiteSpace == {" ", "\t", "\n"}

MaxFolderNameLength == 100

\* replace(/[<>:"/\\|?*]/g, '')
RemoveIllegal(s) == SelectSeq(s, LAMBDA c : c \notin IllegalCharacters)

\* String.prototype.substring(0, n)
Substring(s, n) == SubSeq(s, 1, Min(n, Len(s)))

\* String.prototype.trim
Trim(s) ==
    LET keep == {i \in 1 .. Len(s) : s[i] \notin WhiteSpace}
    IN  IF keep = {} THEN <<>>
        ELSE SubSeq(s, CHOOSE i \in keep : \A j \in keep : i <= j,
                       CHOOSE i \in keep : \A j \in keep : j <= i)

\* Mutant of sanitizeFolderName: without the truncation.
sanitizeFolderNameUntruncated(subject) == Trim(RemoveIllegal(subject))

sanitizeFolderName(subject) ==
    Trim(Substring(RemoveIllegal(subject), MaxFolderNameLength))

\* ------------------------------------------------------------ mail provider
\* gmail.users.history.list(startHistoryId, historyTypes: messageAdded) on the
\* change log lg: one history record per added message after the cursor, and
\* the provider's current historyId.
\* The number of history records the provider keeps for a mailbox: a
\* startHistoryId older than that is out of date.
HistoryRetention == 150

\* gmail.users.history.list answers 404 for a startHistoryId that is out of date.
StaleCursor(lg, startHistoryId) == Len(lg) + 1 - startHistoryId > HistoryRetention

\* The number of history records the provider puts on one page when the
\* request names no maxResults.
HistoryPageSize == 100

\* gmail.users.history.list without pageToken: the first page of the records
\* since startHistoryId, a next-page token when more remain, and the
\* mailbox's current historyId.
HistoryListResponse(lg, startHistoryId) ==
    LET records == Len(lg) + 1 - startHistoryId IN
    [history |-> [i \in 1 .. Min(records, HistoryPageSize) |->
                    [messages |-> <<[id |-> lg[startHistoryId + i - 1]]>>]],
     nextPageToken |-> IF records > HistoryPageSize
                       THEN startHistoryId + HistoryPageSize ELSE 0,
     historyId |-> Len(lg) + 1]

RECURSIVE HistoryMessages(_)
\* history.flatMap over the records' message lists.
HistoryMessages(history) ==
    IF history = <<>> THEN <<>>
    ELSE Head(history).messages \o HistoryMessages(Tail(history))

\* Mutant of HistoryMessageIds: the candidates newest first.
HistoryMessageIdsNewestFirst(res) ==
    LET msgs == HistoryMessages(res.history)
    IN  [i \in 1 .. Len(msgs) |-> msgs[Len(msgs) + 1 - i].id]

\* fetchEmails: the candidates of a history listing.
HistoryMessageIds(res) ==
    LET msgs == HistoryMessages(res.history)
    IN  [i \in 1 .. Len(msgs) |-> msgs[i].id]

\* The account (Token id) whose mailbox a message is delivered to: the
\* identifiers 7..9 belong to the second account, all others to the first.
Owner(m) == IF m \in 7 .. 9 THEN 2 ELSE 1

\* `userId: "me"`: the part of the provider's log an account's credential sees.
Mailbox(lg, id) == SelectSeq(lg, LAMBDA m : Owner(m) = id)

\* gmail.users.messages.list: the mailbox, newest first.
MailboxListing(lg) == Reverse(lg)

\* gmail.users.watch: the provider's current historyId.
WatchResponse(lg) == [historyId |-> Len(lg) + 1]

RECURSIVE ListLoop(_, _, _, _, _, _, _)
\* getRecentMessages' do-while loop; the request of page failPage throws.
ListLoop(listing, maxMessages, allMessageIds, totalFetched, offset, pageNo, failPage) ==
    IF pageNo = failPage THEN <<>>
    ELSE LET maxResults == Min(batchSize, maxMessages - totalFetched)
             ids == SubSeq(listing, offset + 1, Min(offset + maxResults, Len(listing)))
             nextPageToken == IF offset + maxResults < Len(listing)
                              THEN offset + maxResults ELSE 0
             all2 == allMessageIds \o ids
             total2 == totalFetched + Len(ids)
         IN  IF total2 >= maxMessages \/ nextPageToken = 0 \/ Len(ids) = 0
             THEN all2
             ELSE ListLoop(listing, maxMessages, all2, total2, nextPageToken,
                           pageNo + 1, failPage)

getRecentMessages(listing, maxMessages, failPage) ==
    ListLoop(listing, maxMessages, <<>>, 0, 0, 1, failPage)

RECURSIVE ListRequests(_, _, _, _)
\* getRecentMessages' do-while loop: the number of page requests it makes
\* when none of them fails.
ListRequests(listing, maxMessages, totalFetched, offset) ==
    LET maxResults == Min(batchSize, maxMessages - totalFetched)
        ids == SubSeq(listing, offset + 1, Min(offset + maxResults, Len(listing)))
        nextPageToken == IF offset + maxResults < Len(listing)
                         THEN offset + maxResults ELSE 0
        total2 == totalFetched + Len(ids)
    IN  IF total2 >= maxMessages \/ nextPageToken = 0 \/ Len(ids) = 0
        THEN 1
        ELSE 1 + ListRequests(listing, maxMessages, total2, nextPageToken)

\* ------------------------------------------------------------------- state
VARIABLES
    log,              \* provider: ids of the messages added, in arrival order
    tokenTable,       \* Token rows [id, userId, historyId], in findMany order
    emailTable,       \* Email rows [id, messageId, userId]
    attachmentTable,  \* Attachment rows [emailId, fileName, mimeType, driveLink]
    driveFolders,     \* object store: folders [name, parent, owner], id = position
    driveFiles,       \* object store: files [name, parent, public, data, owner], id = position
    round,            \* per invocation: position and local variables
    oauth2Client      \* GoogleAuthService's single OAuth client: its credentials

vars == <<log, tokenTable, emailTable, attachmentTable, driveFolders, driveFiles, round,
          oauth2Client>>

\* Auth.Credentials; 0 stands for an absent field.
NoCredentials == [access_token |-> 0, expiry_date |-> 0, refresh_token |-> 0]

RootFolderName == <<"E", "m", "a", "i", "l", " ", "A", "t", "t", "a", "c", "h", "m", "e", "n", "t", "s">>

IdleRound ==
    [pc |-> "idle", kind |-> "none", snap |-> <<>>, ti |-> 0,
     path |-> "none", messageIds |-> <<>>, idx |-> 0, resCursor |-> NoCursor,
     faults |-> {}, attachments |-> <<>>, mainFolderId |-> 0,
     targetFolderId |-> 0, results |-> <<>>, k |-> 0, driveToken |-> 0,
     data |-> "none", skipped |-> {}]

\* storeTokens: a new account has no userId and no cursor.
NewToken(id) == [id |-> id, userId |-> "", historyId |-> NoCursor]

Init ==
    /\ log = <<>>
    /\ tokenTable = <<NewToken(1)>>
    /\ emailTable = <<>>
    /\ attachmentTable = {}
    /\ driveFolders = <<>>
    /\ driveFiles = <<>>
    /\ oauth2Client = NoCredentials
    /\ round = [r \in Rounds |-> IdleRound]

\* ------------------------------------------------------- control decisions
isInitialSync(rd) == rd.kind = "init"

\* The token fetchEmails was called with (a snapshot read by findMany).
token(rd) == rd.snap[rd.ti]

\* The candidate processMessage is running for.
Cur(rd) == rd.messageIds[rd.idx]

\* fetchEmails: `if (historyId && !isInitialSync)`.
UseHistory(historyId, initial) == historyId # NoCursor /\ ~initial

\* Mutant of MaxMessages: the initial-sync cap for every listing.
MaxMessagesOfInitialSync(path, initial) == InitialSyncMax

\* Mutant of WatchAfterListing: every backfill registers a watch.
WatchAfterAnyListing(path, initial) == path = "backfill"

\* fetchEmails: `if (isInitialSync) setupGmailWatch`, after the backfill of the
\* else branch only.
WatchAfterListing(path, initial) == path = "backfill" /\ initial

\* fetchEmails: the cap handed to getRecentMessages.
MaxMessages(path, initial) ==
    IF path = "fallback"
    THEN (IF initial THEN FallbackInitialMax ELSE RoutineMax)
    ELSE (IF initial THEN InitialSyncMax ELSE RoutineMax)

\* Mutant of ProcessMessageCatches: the error of a message is rethrown.
ProcessMessageRethrows == FALSE

\* processMessage's catch swallows every error of one message.
ProcessMessageCatches == TRUE

\* Mutant of FetchEmailsCatches: the error of a round is rethrown.
FetchEmailsRethrows == FALSE

\* fetchEmails' catch swallows every error of one account's round.
FetchEmailsCatches == TRUE

\* Mutant of UniqueViolation: messageId without the unique constraint.
NoUniqueConstraint(rows, messageId) == FALSE

\* The store's uniqueness constraint on Email.messageId.
UniqueViolation(rows, messageId) ==
    \E i \in 1 .. Len(rows) : rows[i].messageId = messageId

\* prisma.email.findUnique({ messageId }): the row's position, 0 for null.
FindEmail(rows, messageId) ==
    IF \E i \in 1 .. Len(rows) : rows[i].messageId = messageId
    THEN CHOOSE i \in 1 .. Len(rows) : rows[i].messageId = messageId
    ELSE 0

\* Mutant of AfterParse: attachments are processed without creating the row.
AttachmentsBeforeCreate == "extract"

\* processMessage, after the message was fetched and parsed: the next await.
AfterParse == "create"

\* processMessage, after the Email row was created.
AfterCreate == "extract"

\* Mutant of UploadFileReturns: a failed permission grant is ignored.
UploadIgnoresPermission(createOk, permOk) == createOk

\* uploadFile: a result is returned only when the file was created with an
\* id and the permission grant succeeded; every other path throws.
UploadFileReturns(createOk, permOk) == createOk /\ permOk

\* Mutant of NeedsEmailFolder: a subfolder for a single attachment too.
NeedsEmailFolderAlways(n, subject) == n > 0 /\ subject # <<>>

\* uploadAttachments: `attachments.length > 1 && emailSubject`.
NeedsEmailFolder(n, subject) == n > 1 /\ subject # <<>>

\* createEmailFolder: the new folder's id, the parent when the create failed.
createEmailFolder(ok, newId, parentFolderId) == IF ok THEN newId ELSE parentFolderId

\* Mutant of CursorAfterHistoryFailure: the stale cursor is cleared.
CursorClearedOnFailure(stored) == NoCursor

\* fetchEmails' catch of a failed history listing performs no token update.
CursorAfterHistoryFailure(stored) == stored

ClearMessageLocals(rd) ==
    [rd EXCEPT !.attachments = <<>>, !.mainFolderId = 0, !.targetFolderId = 0,
               !.results = <<>>, !.k = 0, !.driveToken = 0, !.skipped = {}]

\* The `for (const id of messageIds)` loop: the next candidate, or the end of
\* fetchEmails.
NextMessage(rd) ==
    IF rd.idx < Len(rd.messageIds)
    THEN [ClearMessageLocals(rd) EXCEPT !.pc = "check", !.idx = @ + 1]
    ELSE [ClearMessageLocals(rd) EXCEPT !.pc = "done"]

\* Mutant of RoundThrew: the error reaches the caller's loop over the accounts.
RoundThrewToCaller(rd) == [ClearMessageLocals(rd) EXCEPT !.pc = "escaped"]

\* An error thrown inside fetchEmails' try block.
RoundThrew(rd) ==
    IF FetchEmailsCatches
    THEN [ClearMessageLocals(rd) EXCEPT !.pc = "done"]
    ELSE [ClearMessageLocals(rd) EXCEPT !.pc = "escaped"]

\* An error thrown inside processMessage's try block ("Failed to process email").
MessageThrew(rd) ==
    LET f == [rd EXCEPT !.faults = @ \cup {"msg"}]
    IN  IF ProcessMessageCatches THEN NextMessage(f) ELSE RoundThrew(f)

Set(r, rd) == round' = [round EXCEPT ![r] = rd]

\* ----------------------------------------------------------------- actions
\* A message is added to the mailbox; the provider's historyId advances.
Deliver(m) ==
    /\ Len(log) < MaxMsgs
    /\ log' = Append(log, m)
    /\ UNCHANGED <<tokenTable, emailTable, attachmentTable, driveFolders, driveFiles, round, oauth2Client>>

\* The n-th message without attachments.
PlainId(n) == 3 * n

ArrivePlain == Deliver(PlainId(Len(log) + 1))

\* The handlers a slot runs: the scheduled tick in slot 1, the push
\* notification in slot 2, and the initial-sync endpoint in either.
Triggers(r) == IF r = 1 THEN {"cron", "init"} ELSE {"push", "init"}

\* handleCron / handlePushNotification: prisma.token.findMany(), then the
\* accounts one after another.  The initial-sync endpoint starts one
\* un-awaited fetchEmails(token, true) per account.
Trigger(r, kinds) ==
    /\ round[r].pc = "idle"
    /\ \E kind \in kinds :
          \E snap \in IF kind = "init"
                      THEN {<<tokenTable[i]>> : i \in 1 .. Len(tokenTable)}
                      ELSE {tokenTable} :
              Set(r, [IdleRound EXCEPT !.pc = "auth", !.kind = kind,
                                       !.snap = snap, !.ti = 1])
    /\ UNCHANGED <<log, tokenTable, emailTable, attachmentTable, driveFolders, driveFiles, oauth2Client>>

StartRound(r) == Trigger(r, Triggers(r))

StartRoutine(r) == Trigger(r, Triggers(r) \ {"init"})

\* The data field of a push notification: absent, a string that is not
\* base64 JSON, base64 JSON.
PushData == {"absent", "garbage", "json"}

\* handlePushNotification: the best-effort decode; parsedData stays {} when
\* the field is absent or JSON.parse throws.
ParsePushData(data) == IF data = "json" THEN "parsed" ELSE "{}"

\* Mutant of PushAccounts: a notification without parsed data starts nothing.
PushAccountsOfParsedData(tokens, parsedData) ==
    IF parsedData = "{}" THEN <<>> ELSE tokens

\* handlePushNotification: the accounts a round is started for.
PushAccounts(tokens, parsedData) == tokens

\* handlePushNotification, up to its first await.
HandlePush(r) ==
    /\ round[r].pc = "idle"
    /\ \E data \in PushData :
          Set(r, [IdleRound EXCEPT !.pc = "findmany", !.kind = "push", !.data = data])
    /\ UNCHANGED <<log, tokenTable, emailTable, attachmentTable, driveFolders, driveFiles, oauth2Client>>

\* handlePushNotification: prisma.token.findMany(), then fetchEmails(token,
\* false) for the accounts one after another.
FindTokens(r) ==
    LET rd == round[r]
        tokens == PushAccounts(tokenTable, ParsePushData(rd.data))
    IN
    /\ rd.pc = "findmany"
    /\ IF Len(tokens) = 0
       THEN Set(r, IdleRound)
       ELSE Set(r, [rd EXCEPT !.pc = "auth", !.snap = tokens, !.ti = 1])
    /\ UNCHANGED <<log, tokenTable, emailTable, attachmentTable, driveFolders, driveFiles, oauth2Client>>

\* fetchEmails: getAuthenticatedClient, then the choice of the discovery path.
Authenticate(r) ==
    LET rd == round[r] IN
    /\ rd.pc = "auth"
    /\ \E ok \in BOOLEAN :
          IF ~ok
          THEN Set(r, RoundThrew([rd EXCEPT !.faults = @ \cup {"auth"}]))
          ELSE IF UseHistory(token(rd).historyId, isInitialSync(rd))
          THEN Set(r, [rd EXCEPT !.pc = "history", !.path = "history"])
          ELSE Set(r, [rd EXCEPT !.pc = "list", !.path = "backfill"])
    /\ UNCHANGED <<log, tokenTable, emailTable, attachmentTable, driveFolders, driveFiles, oauth2Client>>

\* prisma.token.update({ id }, { historyId })
UpdateHistoryId(rows, id, historyId) ==
    [i \in 1 .. Len(rows) |->
        IF rows[i].id = id THEN [rows[i] EXCEPT !.historyId = historyId] ELSE rows[i]]

\* fetchEmails: gmail.users.history.list; a failure falls back to the listing.
HistoryList(r) ==
    LET rd == round[r] IN
    /\ rd.pc = "history"
    /\ \E ok \in IF StaleCursor(Mailbox(log, token(rd).id), token(rd).historyId)
                 THEN {FALSE} ELSE BOOLEAN :
          IF ok
          THEN LET res == HistoryListResponse(Mailbox(log, token(rd).id), token(rd).historyId) IN
               /\ Set(r, [rd EXCEPT !.pc = "hwrite",
                                    !.messageIds = HistoryMessageIds(res),
                                    !.resCursor = res.historyId])
               /\ UNCHANGED tokenTable
          ELSE /\ Set(r, [rd EXCEPT !.pc = "list", !.path = "fallback"])
               /\ tokenTable' = [i \in 1 .. Len(tokenTable) |->
                     IF tokenTable[i].id = token(rd).id
                     THEN [tokenTable[i] EXCEPT
                              !.historyId = CursorAfterHistoryFailure(@)]
                     ELSE tokenTable[i]]
    /\ UNCHANGED <<log, emailTable, attachmentTable, driveFolders, driveFiles, oauth2Client>>

\* fetchEmails: the cursor is advanced to the listing's historyId.
HistoryWrite(r) ==
    LET rd == round[r] IN
    /\ rd.pc = "hwrite"
    /\ tokenTable' = UpdateHistoryId(tokenTable, token(rd).id, rd.resCursor)
    /\ Set(r, NextMessage(rd))
    /\ UNCHANGED <<log, emailTable, attachmentTable, driveFolders, driveFiles, oauth2Client>>

\* getRecentMessages: the capped listing, [] when a page request fails
\* (fault "laterpage" when the failing request is not the first).
ListMessages(r) ==
    LET rd == round[r] IN
    /\ rd.pc = "list"
    /\ \E failPage \in 0 .. Min(MaxFailPage,
                                ListRequests(MailboxListing(Mailbox(log, token(rd).id)),
                                             MaxMessages(rd.path, isInitialSync(rd)), 0, 0)) :
          LET ids == getRecentMessages(MailboxListing(Mailbox(log, token(rd).id)),
                                       MaxMessages(rd.path, isInitialSync(rd)), failPage)
              got == [rd EXCEPT !.messageIds = ids,
                                !.faults = CASE failPage = 0 -> @
                                             [] failPage = 1 -> @ \cup {"list"}
                                             [] OTHER -> @ \cup {"list", "laterpage"}]
          IN  IF WatchAfterListing(rd.path, isInitialSync(rd))
              THEN Set(r, [got EXCEPT !.pc = "watch"])
              ELSE Set(r, NextMessage(got))
    /\ UNCHANGED <<log, tokenTable, emailTable, attachmentTable, driveFolders, driveFiles, oauth2Client>>

\* setupGmailWatch: gmail.users.watch; its catch swallows a failure.
Watch(r) ==
    LET rd == round[r] IN
    /\ rd.pc = "watch"
    /\ \E ok \in BOOLEAN :
          IF ok
          THEN Set(r, [rd EXCEPT !.pc = "wwrite",
                                 !.resCursor = WatchResponse(Mailbox(log, token(rd).id)).historyId])
          ELSE Set(r, NextMessage([rd EXCEPT !.faults = @ \cup {"watch"}]))
    /\ UNCHANGED <<log, tokenTable, emailTable, attachmentTable, driveFolders, driveFiles, oauth2Client>>

\* setupGmailWatch: the watch's historyId is stored.
WatchWrite(r) ==
    LET rd == round[r] IN
    /\ rd.pc = "wwrite"
    /\ tokenTable' = UpdateHistoryId(tokenTable, token(rd).id, rd.resCursor)
    /\ Set(r, NextMessage(rd))
    /\ UNCHANGED <<log, emailTable, attachmentTable, driveFolders, driveFiles, oauth2Client>>

\* Mutant of AlreadyStored: the result of the existence check is ignored.
ExistenceCheckIgnored(existingEmail) == FALSE

\* processMessage: `if (existingEmail) return`.
AlreadyStored(existingEmail) == existingEmail # 0

\* processMessage: the existence check.
CheckExisting(r) ==
    LET rd == round[r] IN
    /\ rd.pc = "check"
    /\ IF AlreadyStored(FindEmail(emailTable, Cur(rd)))
       THEN Set(r, NextMessage(rd))
       ELSE Set(r, [rd EXCEPT !.pc = "get"])
    /\ UNCHANGED <<log, tokenTable, emailTable, attachmentTable, driveFolders, driveFiles, oauth2Client>>

\* processMessage: gmail.users.messages.get, then the synchronous parse.
GetFullMessage(r) ==
    LET rd == round[r] IN
    /\ rd.pc = "get"
    /\ \E out \in {"ok", "error", "nopayload"} :
          CASE out = "ok" -> Set(r, [rd EXCEPT !.pc = AfterParse])
            [] out = "error" -> Set(r, MessageThrew(rd))
            [] OTHER -> Set(r, NextMessage([rd EXCEPT !.faults = @ \cup {"msg"}]))
    /\ UNCHANGED <<log, tokenTable, emailTable, attachmentTable, driveFolders, driveFiles, oauth2Client>>

\* Mutant of AfterDuplicateKey: the rejection is ignored and the run goes on
\* as if it had created the row.
DuplicateKeyIgnored(rd) == [rd EXCEPT !.pc = AfterCreate]

\* processMessage's catch on "Unique constraint": a debug line, then return.
AfterDuplicateKey(rd) == NextMessage(rd)

\* processMessage: prisma.email.create.
CreateEmail(r) ==
    LET rd == round[r]
        msg == GetMessage(Cur(rd))
    IN
    /\ rd.pc = "create"
    /\ \E dbOk \in BOOLEAN :
          IF ~dbOk
          THEN /\ Set(r, MessageThrew(rd))
               /\ UNCHANGED emailTable
          ELSE IF UniqueViolation(emailTable, msg.id)
          THEN /\ Set(r, IF ProcessMessageCatches THEN AfterDuplicateKey(rd)
                         ELSE RoundThrew(rd))
               /\ UNCHANGED emailTable
          ELSE /\ emailTable' = Append(emailTable,
                     [id |-> Len(emailTable) + 1, userId |-> token(rd).userId]
                         @@ EmailDto(msg))
               /\ Set(r, [rd EXCEPT !.pc = AfterCreate])
    /\ UNCHANGED <<log, tokenTable, attachmentTable, driveFolders, driveFiles, oauth2Client>>

\* Mutant of NoAttachmentsFound: the upload path is entered for every message.
UploadPathAlways(atts) == FALSE

\* processAttachments: `if (attachments.length === 0) return`.
NoAttachmentsFound(atts) == Len(atts) = 0

\* processAttachments: extractAttachments, one download per attachment part.
ExtractAttachments(r) ==
    LET rd == round[r] IN
    /\ rd.pc = "extract"
    /\ \E okSet \in SUBSET AttachmentRefs(Cur(rd)) :
          LET atts == extractAttachments(Cur(rd), okSet) IN
          IF NoAttachmentsFound(atts)
          THEN Set(r, NextMessage(rd))
          ELSE Set(r, [rd EXCEPT !.pc = "attauth", !.attachments = atts,
                               !.skipped = AttachmentRefs(Cur(rd)) \ okSet])
    /\ UNCHANGED <<log, tokenTable, emailTable, attachmentTable, driveFolders, driveFiles, oauth2Client>>

\* processAttachments: `userId ? tokens.find(t => t.userId === userId) :
\* tokens[0]`; the Token id, 0 for undefined.
UserToken(tokens, userId) ==
    IF userId # ""
    THEN (IF \E i \in 1 .. Len(tokens) : tokens[i].userId = userId
          THEN tokens[CHOOSE i \in 1 .. Len(tokens) :
                         /\ tokens[i].userId = userId
                         /\ \A j \in 1 .. (i - 1) : tokens[j].userId # userId].id
          ELSE 0)
    ELSE (IF Len(tokens) > 0 THEN tokens[1].id ELSE 0)

\* processAttachments: findMany, the token chosen for the upload,
\* getAuthenticatedClient.
AuthenticateDrive(r) ==
    LET rd == round[r]
        userToken == UserToken(tokenTable, token(rd).userId)
    IN
    /\ rd.pc = "attauth"
    /\ \E ok \in BOOLEAN :
          IF ok /\ userToken # 0
          THEN Set(r, [rd EXCEPT !.pc = "fsearch", !.driveToken = userToken])
          ELSE Set(r, NextMessage(rd))
    /\ UNCHANGED <<log, tokenTable, emailTable, attachmentTable, driveFolders, driveFiles, oauth2Client>>

\* uploadAttachments, once the root folder is known.
WithMainFolder(rd, mainFolderId) ==
    IF NeedsEmailFolder(Len(rd.attachments), SubjectOf(Cur(rd)))
    THEN [rd EXCEPT !.pc = "subfolder", !.mainFolderId = mainFolderId,
                    !.targetFolderId = mainFolderId]
    ELSE [rd EXCEPT !.pc = "upload", !.mainFolderId = mainFolderId,
                    !.targetFolderId = mainFolderId, !.k = 1]

\* getOrCreateAttachmentsFolder: the search by the fixed name.
SearchRootFolder(r) ==
    LET rd == round[r]
        found == {f \in 1 .. Len(driveFolders) :
                     /\ driveFolders[f].owner = rd.driveToken
                     /\ driveFolders[f].name = RootFolderName}
    IN
    /\ rd.pc = "fsearch"
    /\ \E ok \in BOOLEAN :
          IF ~ok THEN Set(r, NextMessage(rd))
          ELSE IF found = {} THEN Set(r, [rd EXCEPT !.pc = "fcreate"])
          ELSE \E f \in found : Set(r, WithMainFolder(rd, f))
    /\ UNCHANGED <<log, tokenTable, emailTable, attachmentTable, driveFolders, driveFiles, oauth2Client>>

\* getOrCreateAttachmentsFolder: the folder is created when none was found.
CreateRootFolder(r) ==
    LET rd == round[r] IN
    /\ rd.pc = "fcreate"
    /\ \E ok \in BOOLEAN :
          IF ~ok
          THEN /\ Set(r, NextMessage(rd))
               /\ UNCHANGED driveFolders
          ELSE /\ driveFolders' = Append(driveFolders,
                                         [name |-> RootFolderName, parent |-> 0,
                                          owner |-> rd.driveToken])
               /\ Set(r, WithMainFolder(rd, Len(driveFolders) + 1))
    /\ UNCHANGED <<log, tokenTable, emailTable, attachmentTable, driveFiles, oauth2Client>>

\* createEmailFolder: a subfolder named from the subject, the parent on failure.
CreateSubfolder(r) ==
    LET rd == round[r] IN
    /\ rd.pc = "subfolder"
    /\ \E ok \in BOOLEAN :
          /\ driveFolders' =
                IF ok THEN Append(driveFolders,
                                  [name |-> sanitizeFolderName(SubjectOf(Cur(rd))),
                                   parent |-> rd.mainFolderId,
                                   owner |-> rd.driveToken])
                ELSE driveFolders
          /\ Set(r, [rd EXCEPT !.pc = "upload", !.k = 1,
                               !.targetFolderId =
                                   createEmailFolder(ok, Len(driveFolders) + 1,
                                                     rd.mainFolderId)])
    /\ UNCHANGED <<log, tokenTable, emailTable, attachmentTable, driveFiles, oauth2Client>>

\* Mutant of UploadAttachmentsCatches: a failed upload ends the batch in the
\* outer catch, which returns no result.
UploadAttachmentsRethrows == FALSE

\* uploadAttachments: the catch inside the loop logs the failed upload and
\* the loop goes on.
UploadAttachmentsCatches == TRUE

\* uploadAttachments' loop: uploadFile (files.create, permissions.create) for
\* attachment k; a throw skips the attachment.
UploadOne(r) ==
    LET rd == round[r]
        att == rd.attachments[rd.k]
        fileId == Len(driveFiles) + 1
    IN
    /\ rd.pc = "upload"
    /\ \E createOk \in BOOLEAN : \E permOk \in BOOLEAN :
          LET res == IF UploadFileReturns(createOk, permOk)
                     THEN Append(rd.results,
                                 [fileId |-> fileId, fileName |-> att.fileName,
                                  mimeType |-> att.mimeType, webViewLink |-> fileId])
                     ELSE rd.results
          IN
          /\ (~createOk => permOk)
          /\ driveFiles' =
                IF createOk
                THEN Append(driveFiles,
                            [name |-> att.fileName, parent |-> rd.targetFolderId,
                             public |-> permOk, data |-> att.data,
                             owner |-> rd.driveToken])
                ELSE driveFiles
          /\ IF ~UploadFileReturns(createOk, permOk) /\ ~UploadAttachmentsCatches
             THEN Set(r, NextMessage(rd))
             ELSE IF rd.k < Len(rd.attachments)
             THEN Set(r, [rd EXCEPT !.results = res, !.k = @ + 1])
             ELSE IF Len(res) = 0
             THEN Set(r, NextMessage(rd))
             ELSE Set(r, [rd EXCEPT !.pc = "store", !.results = res, !.k = 1])
    /\ UNCHANGED <<log, tokenTable, emailTable, attachmentTable, driveFolders, oauth2Client>>

\* storeAttachmentMetadata for upload result k: findUnique, attachment.create.
StoreMetadata(r) ==
    LET rd == round[r]
        res == rd.results[rd.k]
        e == FindEmail(emailTable, Cur(rd))
    IN
    /\ rd.pc = "store"
    /\ \E dbOk \in BOOLEAN :
          LET stored == e # 0 /\ dbOk
              after == [rd EXCEPT !.faults = IF stored THEN @ ELSE @ \cup {"store"}]
          IN
          /\ attachmentTable' =
                IF stored
                THEN attachmentTable \cup
                       {[emailId |-> emailTable[e].id, fileName |-> res.fileName,
                         mimeType |-> res.mimeType, driveLink |-> res.webViewLink]}
                ELSE attachmentTable
          /\ IF rd.k < Len(rd.results)
             THEN Set(r, [after EXCEPT !.k = @ + 1])
             ELSE Set(r, NextMessage(after))
    /\ UNCHANGED <<log, tokenTable, emailTable, driveFolders, driveFiles, oauth2Client>>

\* Mutant of NextToken: the handler's loop does not wait for fetchEmails and
\* moves to the next account while candidates are still being processed.
NextTokenWithoutAwait(r) ==
    LET rd == round[r] IN
    /\ rd.pc \in {"done", "check"}
    /\ IF rd.ti < Len(rd.snap)
       THEN Set(r, [IdleRound EXCEPT !.pc = "auth", !.kind = rd.kind,
                                     !.snap = rd.snap, !.ti = rd.ti + 1,
                                     !.data = rd.data])
       ELSE Set(r, IdleRound)
    /\ UNCHANGED <<log, tokenTable, emailTable, attachmentTable, driveFolders, driveFiles, oauth2Client>>

\* fetchEmails returned: the next account of the tick, or the handler ends.
NextToken(r) ==
    LET rd == round[r] IN
    /\ rd.pc = "done"
    /\ IF rd.ti < Len(rd.snap)
       THEN Set(r, [IdleRound EXCEPT !.pc = "auth", !.kind = rd.kind,
                                     !.snap = rd.snap, !.ti = rd.ti + 1,
                                     !.data = rd.data])
       ELSE Set(r, IdleRound)
    /\ UNCHANGED <<log, tokenTable, emailTable, attachmentTable, driveFolders, driveFiles, oauth2Client>>

\* Discovery and the ingestion of messages without attachments.
SyncStep(r) ==
    \/ StartRound(r)
    \/ Authenticate(r)
    \/ HistoryList(r)
    \/ HistoryWrite(r)
    \/ ListMessages(r)
    \/ Watch(r)
    \/ WatchWrite(r)
    \/ CheckExisting(r)
    \/ GetFullMessage(r)
    \/ CreateEmail(r)
    \/ ExtractAttachments(r)
    \/ NextToken(r)

Next == ArrivePlain \/ \E r \in Rounds : SyncStep(r)

Spec == Init /\ [][Next]_vars

\* Routine rounds over a mailbox that holds messages with attachments.
InitIngest ==
    /\ log = [i \in 1 .. MaxMsgs |-> i]
    /\ tokenTable = <<NewToken(1)>>
    /\ emailTable = <<>>
    /\ attachmentTable = {}
    /\ driveFolders = <<>>
    /\ driveFiles = <<>>
    /\ oauth2Client = NoCredentials
    /\ round = [r \in Rounds |-> IdleRound]

IngestStep(r) ==
    \/ StartRoutine(r)
    \/ Authenticate(r)
    \/ ListMessages(r)
    \/ CheckExisting(r)
    \/ GetFullMessage(r)
    \/ CreateEmail(r)
    \/ ExtractAttachments(r)
    \/ AuthenticateDrive(r)
    \/ SearchRootFolder(r)
    \/ CreateRootFolder(r)
    \/ CreateSubfolder(r)
    \/ UploadOne(r)
    \/ StoreMetadata(r)
    \/ NextToken(r)

NextIngest == \E r \in Rounds : IngestStep(r)

SpecIngest == InitIngest /\ [][NextIngest]_vars

\* A scheduled tick and a push notification over two accounts: the first
\* account's mailbox holds a message without attachments, the second's a
\* message with two.
InitAccounts ==
    /\ log = <<3, 7>>
    /\ tokenTable = <<NewToken(1), NewToken(2)>>
    /\ emailTable = <<>>
    /\ attachmentTable = {}
    /\ driveFolders = <<>>
    /\ driveFiles = <<>>
    /\ oauth2Client = NoCredentials
    /\ round = [r \in Rounds |-> IdleRound]

\* handleCron; refreshAllExpiredTokens catches every failure and changes only
\* the credentials, whose validity Authenticate draws.
StartTick(r) == r = 1 /\ Trigger(r, {"cron"})

StartPush(r) == r = 2 /\ HandlePush(r)

AccountsStep(r) ==
    \/ StartTick(r)
    \/ StartPush(r)
    \/ FindTokens(r)
    \/ Authenticate(r)
    \/ ListMessages(r)
    \/ CheckExisting(r)
    \/ GetFullMessage(r)
    \/ CreateEmail(r)
    \/ ExtractAttachments(r)
    \/ AuthenticateDrive(r)
    \/ SearchRootFolder(r)
    \/ CreateRootFolder(r)
    \/ CreateSubfolder(r)
    \/ UploadOne(r)
    \/ StoreMetadata(r)
    \/ NextToken(r)

NextAccounts == \E r \in Rounds : AccountsStep(r)

SpecAccounts == InitAccounts /\ [][NextAccounts]_vars

\* Routine rounds over a mailbox holding one message, drawn from the leaf,
\* tree and body variants.
InitParse ==
    /\ log \in {<<m>> : m \in LeafIds \cup TreeIds \cup BodyIds}
    /\ tokenTable = <<NewToken(1)>>
    /\ emailTable = <<>>
    /\ attachmentTable = {}
    /\ driveFolders = <<>>
    /\ driveFiles = <<>>
    /\ oauth2Client = NoCredentials
    /\ round = [r \in Rounds |-> IdleRound]

SpecParse == InitParse /\ [][NextIngest]_vars

\* The sizes of the mailboxes the listing caps are exercised on.
ListingSizes == {RoutineMax + 1, InitialSyncMax + 1}

\* One handler at a time over a large mailbox all of whose messages were
\* ingested before, for an account without cursor and for one whose cursor
\* is current.
InitListing ==
    /\ \E n \in ListingSizes :
          /\ log = [i \in 1 .. n |-> 100 + i]
          /\ emailTable = [i \in 1 .. n |->
                               [id |-> i, messageId |-> 100 + i, userId |-> ""]]
          /\ \E c \in {NoCursor, n + 1} :
                tokenTable = <<[NewToken(1) EXCEPT !.historyId = c]>>
    /\ attachmentTable = {}
    /\ driveFolders = <<>>
    /\ driveFiles = <<>>
    /\ oauth2Client = NoCredentials
    /\ round = [r \in Rounds |-> IdleRound]

ListingStep(r) ==
    \/ StartRound(r)
    \/ Authenticate(r)
    \/ HistoryList(r)
    \/ HistoryWrite(r)
    \/ ListMessages(r)
    \/ Watch(r)
    \/ WatchWrite(r)
    \/ CheckExisting(r)
    \/ NextToken(r)

NextListing == ListingStep(1)

SpecListing == InitListing /\ [][NextListing]_vars

\* One handler at a time over a mailbox of two messages with two attachments
\* each, one of them drawn from the subject variants: the calls of
\* uploadAttachments follow one another.
InitFolders ==
    /\ \E m \in SubjectIds : log \in {<<1, m>>, <<m, 1>>}
    /\ tokenTable = <<NewToken(1)>>
    /\ emailTable = <<>>
    /\ attachmentTable = {}
    /\ driveFolders = <<>>
    /\ driveFiles = <<>>
    /\ oauth2Client = NoCredentials
    /\ round = [r \in Rounds |-> IdleRound]

NextFolders == IngestStep(1)

SpecFolders == InitFolders /\ [][NextFolders]_vars

\* A scheduled tick and a push notification over two accounts, the first
\* with two messages in its mailbox, the second with one.
InitSequence ==
    /\ log = <<3, 6, 7>>
    /\ tokenTable = <<NewToken(1), NewToken(2)>>
    /\ emailTable = <<>>
    /\ attachmentTable = {}
    /\ driveFolders = <<>>
    /\ driveFiles = <<>>
    /\ oauth2Client = NoCredentials
    /\ round = [r \in Rounds |-> IdleRound]

SpecSequence == InitSequence /\ [][NextAccounts]_vars

\* -------------------------------------------------------------- credentials
\* The number of access tokens after which no further call is started.
MaxRefreshes == 2

\* isTokenExpired: 5 * 60 * 1000 ms.
bufferTime == 5 * 60 * 1000

\* refreshToken: the lifetime assumed when the provider names no expiry.
DefaultLifetime == 3600000

\* The expiry of the credential stored at the start, and the readings of
\* Date.now(): around that expiry less the buffer, and around the expiry of a
\* refreshed credential less the buffer.
FirstExpiry == 1000000
Times == {699999, 700000, 700001, 4000000, 4000001}

\* Mutant of isTokenExpired: a credential that expires exactly at the end of
\* the buffer is still taken as valid.
isTokenExpiredStrictly(tk, currentTime) == tk.expiryDate < currentTime + bufferTime

\* isTokenExpired
isTokenExpired(tk, currentTime) == tk.expiryDate <= currentTime + bufferTime

\* A caller of getValidToken: the Token object it holds, the reading of the
\* clock, the number of remote calls made, the provider's credentials and
\* the value returned.
NoToken == [id |-> 0, userId |-> "", historyId |-> NoCursor,
            accessToken |-> 0, refreshToken |-> 0, expiryDate |-> 0]
IdleCaller == [pc |-> "idle", token |-> NoToken, now |-> 0, remote |-> 0,
               request |-> 0, credentials |-> NoCredentials, result |-> NoToken]

\* The account a credential was granted by: the credentials of account a
\* are numbered 100 * a + 1, 100 * a + 2, ...
Grant(credential) == credential \div 100
Serial(credential) == credential % 100

\* storeTokens: the credential record of account a after its consent.
AccountToken(a) ==
    [NoToken EXCEPT !.id = a, !.accessToken = 100 * a + 1,
                    !.refreshToken = 100 * a + 1, !.expiryDate = FirstExpiry]

\* Date.now() never runs backwards.
Clock == {t \in Times : \A r \in Rounds : round[r].now <= t}

InitAuth ==
    /\ log = <<>>
    /\ tokenTable = <<AccountToken(1)>>
    /\ emailTable = <<>>
    /\ attachmentTable = {}
    /\ driveFolders = <<>>
    /\ driveFiles = <<>>
    /\ oauth2Client = NoCredentials
    /\ round = [r \in Rounds |-> IdleCaller]

\* prisma.token.findMany: the caller obtains its Token object.
ReadToken(r) ==
    /\ round[r].pc = "idle"
    /\ \E i \in 1 .. Len(tokenTable) :
          /\ Serial(tokenTable[i].accessToken) <= MaxRefreshes
          /\ Set(r, [IdleCaller EXCEPT !.pc = "have", !.token = tokenTable[i],
                                        !.now = round[r].now])
    /\ UNCHANGED <<log, tokenTable, emailTable, attachmentTable, driveFolders, driveFiles, oauth2Client>>

\* oauth2Client.setCredentials({ refresh_token }): the client's credentials
\* are replaced.
setCredentials(refresh_token) == [NoCredentials EXCEPT !.refresh_token = refresh_token]

\* getValidToken: the expiry test; a valid credential is returned as it is.
\* For an expired one refreshToken runs up to its first await: the shared
\* client is given the caller's refresh token and refreshAccessToken() is
\* called in the same turn, so the request carries that refresh token.
GetValidToken(r) ==
    LET rd == round[r] IN
    /\ rd.pc = "have"
    /\ \E now \in Clock :
          IF isTokenExpired(rd.token, now)
          THEN /\ oauth2Client' = setCredentials(rd.token.refreshToken)
               /\ Set(r, [rd EXCEPT !.pc = "refresh", !.now = now,
                                    !.request = oauth2Client'.refresh_token])
          ELSE /\ Set(r, [rd EXCEPT !.pc = "returned", !.now = now, !.result = rd.token])
               /\ UNCHANGED oauth2Client
    /\ UNCHANGED <<log, tokenTable, emailTable, attachmentTable, driveFolders, driveFiles>>

\* The token endpoint: a new access token of the account that granted the
\* refresh token of the request.
IssueAccessToken(refresh_token, serial) == 100 * Grant(refresh_token) + serial

\* refreshToken: oauth2Client.refreshAccessToken; the call is rejected, or
\* answers without an access token, or answers with new credentials.  The
\* credentials returned are the client's own: their refresh_token is absent,
\* a rotated one of the request's account, or the one the client holds when
\* the answer arrives; the client keeps them.
RefreshAccessToken(r) ==
    LET rd == round[r] IN
    /\ rd.pc = "refresh"
    /\ \E out \in {"ok", "rejected", "empty"} :
          IF out = "ok"
          THEN \E exp \in {0, rd.now + DefaultLifetime - 1000} :
               \E rt \in {0, rd.request + 1, oauth2Client.refresh_token} :
                  LET credentials ==
                          [access_token |-> IssueAccessToken(rd.request,
                                                Serial(rd.token.accessToken) + 1),
                           expiry_date |-> exp,
                           refresh_token |-> rt]
                  IN  /\ Set(r, [rd EXCEPT !.pc = "update", !.remote = @ + 1,
                                           !.credentials = credentials])
                      /\ oauth2Client' = credentials
          ELSE /\ Set(r, [rd EXCEPT !.pc = "threw", !.remote = @ + 1])
               /\ UNCHANGED oauth2Client
    /\ UNCHANGED <<log, tokenTable, emailTable, attachmentTable, driveFolders, driveFiles>>

\* refreshToken: prisma.token.update where id, and the updated row returned.
UpdateToken(r) ==
    LET rd == round[r]
        i == CHOOSE j \in 1 .. Len(tokenTable) : tokenTable[j].id = rd.token.id
    IN
    /\ rd.pc = "update"
    /\ \E dbOk \in BOOLEAN : \E now \in Clock :
          IF ~dbOk
          THEN /\ Set(r, [rd EXCEPT !.pc = "threw", !.now = now])
               /\ UNCHANGED tokenTable
          ELSE LET updatedToken ==
                       [tokenTable[i] EXCEPT
                          !.accessToken = rd.credentials.access_token,
                          !.expiryDate = IF rd.credentials.expiry_date # 0
                                         THEN rd.credentials.expiry_date
                                         ELSE now + DefaultLifetime,
                          !.refreshToken = IF rd.credentials.refresh_token # 0
                                           THEN rd.credentials.refresh_token ELSE @]
               IN  /\ tokenTable' = [tokenTable EXCEPT ![i] = updatedToken]
                   /\ Set(r, [rd EXCEPT !.pc = "returned", !.now = now,
                                        !.result = updatedToken])
    /\ UNCHANGED <<log, emailTable, attachmentTable, driveFolders, driveFiles, oauth2Client>>

\* The caller has its answer: the credential or the error 'Token refresh failed'.
CallerDone(r) ==
    /\ round[r].pc \in {"returned", "threw"}
    /\ Set(r, [IdleCaller EXCEPT !.now = round[r].now])
    /\ UNCHANGED <<log, tokenTable, emailTable, attachmentTable, driveFolders, driveFiles, oauth2Client>>

AuthStep(r) ==
    \/ ReadToken(r)
    \/ GetValidToken(r)
    \/ RefreshAccessToken(r)
    \/ UpdateToken(r)
    \/ CallerDone(r)

NextAuth == \E r \in Rounds : AuthStep(r)

SpecAuth == InitAuth /\ [][NextAuth]_vars

\* Two accounts whose credentials are refreshed through the one client.
InitShared ==
    /\ log = <<>>
    /\ tokenTable = <<AccountToken(1), AccountToken(2)>>
    /\ emailTable = <<>>
    /\ attachmentTable = {}
    /\ driveFolders = <<>>
    /\ driveFiles = <<>>
    /\ oauth2Client = NoCredentials
    /\ round = [r \in Rounds |-> IdleCaller]

\* The clock is read when the first credentials are due and when refreshed
\* ones are due again; caller r works on the record of account r.
SharedCase(r) ==
    /\ round'[r].now \in {0, FirstExpiry - bufferTime, 4000000}
    /\ round'[r].token.id \in {0, r}

SharedStep(r) ==
    \/ ReadToken(r) /\ SharedCase(r)
    \/ GetValidToken(r) /\ SharedCase(r)
    \/ RefreshAccessToken(r) /\ SharedCase(r)
    \/ UpdateToken(r) /\ SharedCase(r)
    \/ CallerDone(r) /\ SharedCase(r)

NextShared == \E r \in Rounds : SharedStep(r)

SpecShared == InitShared /\ [][NextShared]_vars

\* Scheduled rounds of one handler for an account whose cursor is older
\* than the newest messages of its mailbox by exactly one page of history
\* records, or by two records more; the messages were ingested before by
\* listings.
InitHistory ==
    /\ log = [i \in 1 .. (HistoryPageSize + 2) |-> 99 + 3 * i]
    /\ \E c \in {1, 3} : tokenTable = <<[NewToken(1) EXCEPT !.historyId = c]>>
    /\ emailTable = [i \in 1 .. (HistoryPageSize + 2) |->
                        [id |-> i, userId |-> ""] @@ EmailDto(GetMessage(99 + 3 * i))]
    /\ attachmentTable = {}
    /\ driveFolders = <<>>
    /\ driveFiles = <<>>
    /\ oauth2Client = NoCredentials
    /\ round = [r \in Rounds |-> IdleRound]

HistoryStep(r) ==
    \/ StartRoutine(r)
    \/ Authenticate(r)
    \/ HistoryList(r)
    \/ HistoryWrite(r)
    \/ ListMessages(r)
    \/ CheckExisting(r)
    \/ NextToken(r)

NextHistory == HistoryStep(1)

SpecHistory == InitHistory /\ [][NextHistory]_vars

\* An account that registered its watch on an empty mailbox; messages
\* without attachments arrive and the scheduled tick keeps running.
InitRetry ==
    /\ log = <<>>
    /\ tokenTable = <<[NewToken(1) EXCEPT !.historyId = 1]>>
    /\ emailTable = <<>>
    /\ attachmentTable = {}
    /\ driveFolders = <<>>
    /\ driveFiles = <<>>
    /\ oauth2Client = NoCredentials
    /\ round = [r \in Rounds |-> IdleRound]

RetryStep(r) ==
    \/ StartRoutine(r)
    \/ Authenticate(r)
    \/ HistoryList(r)
    \/ HistoryWrite(r)
    \/ ListMessages(r)
    \/ CheckExisting(r)
    \/ GetFullMessage(r)
    \/ CreateEmail(r)
    \/ ExtractAttachments(r)
    \/ NextToken(r)

NextRetry == ArrivePlain \/ RetryStep(1)

\* The @Cron schedule starts a tick every 30 seconds and every await of a
\* running handler returns; a remote call that is made again and again
\* succeeds again and again.
FairRetry ==
    /\ WF_vars(RetryStep(1))
    /\ SF_vars(Authenticate(1) /\ round'[1].pc \in {"history", "list"})
    /\ SF_vars(HistoryList(1) /\ round'[1].pc = "hwrite")
    /\ SF_vars(ListMessages(1) /\ "list" \notin round'[1].faults)
    /\ SF_vars(GetFullMessage(1) /\ round'[1].pc = AfterParse)
    /\ SF_vars(CreateEmail(1) /\ emailTable' # emailTable)

SpecRetry == InitRetry /\ [][NextRetry]_vars /\ FairRetry

\* An account whose stored cursor is out of date or current, its messages
\* ingested before; the scheduled tick keeps running.
InitStale ==
    /\ log = [i \in 1 .. (HistoryRetention + 2) |-> 99 + 3 * i]
    /\ \E cursor \in {1, HistoryRetention + 3} :
          tokenTable = <<[NewToken(1) EXCEPT !.historyId = cursor]>>
    /\ emailTable = [i \in 1 .. (HistoryRetention + 2) |->
                        [id |-> i, userId |-> ""] @@ EmailDto(GetMessage(99 + 3 * i))]
    /\ attachmentTable = {}
    /\ driveFolders = <<>>
    /\ driveFiles = <<>>
    /\ oauth2Client = NoCredentials
    /\ round = [r \in Rounds |-> IdleRound]

NextStale == HistoryStep(1)

\* Ticks keep coming and every await returns; the calls other than the
\* history listing, made again and again, succeed again and again.
FairStale ==
    /\ WF_vars(HistoryStep(1))
    /\ SF_vars(Authenticate(1) /\ round'[1].pc \in {"history", "list"})
    /\ SF_vars(ListMessages(1) /\ "list" \notin round'[1].faults)

SpecStale == InitStale /\ [][NextStale]_vars /\ FairStale

\* A step of a handler in which no remote call fails.
NoCallFailed(rd) == rd.faults = {} /\ rd.path # "fallback"

GapStep(r) ==
    \/ StartRound(r) /\ NoCallFailed(round'[r])
    \/ Authenticate(r) /\ NoCallFailed(round'[r])
    \/ HistoryList(r) /\ NoCallFailed(round'[r])
    \/ HistoryWrite(r) /\ NoCallFailed(round'[r])
    \/ ListMessages(r) /\ NoCallFailed(round'[r])
    \/ Watch(r) /\ NoCallFailed(round'[r])
    \/ WatchWrite(r) /\ NoCallFailed(round'[r])
    \/ CheckExisting(r) /\ NoCallFailed(round'[r])
    \/ GetFullMessage(r) /\ NoCallFailed(round'[r])
    \/ CreateEmail(r) /\ NoCallFailed(round'[r])
    \/ ExtractAttachments(r) /\ NoCallFailed(round'[r])
    \/ NextToken(r) /\ NoCallFailed(round'[r])

NextGap == ArrivePlain \/ \E r \in Rounds : GapStep(r)

\* Ticks and notifications keep coming and every await returns.
FairGap == \A r \in Rounds : WF_vars(GapStep(r))

\* A new account, messages arriving, the initial-sync endpoint and the
\* routine handlers, every remote call succeeding.
SpecGap == Init /\ [][NextGap]_vars /\ FairGap

\* getRecentMessages, one page request at a time, against a provider that
\* answers as it likes.  totalFetched is allMessageIds.length throughout;
\* result is the length of the list returned.
NewListing == [pc |-> "request", maxMessages |-> 0, totalFetched |-> 0,
               nextPageToken |-> FALSE, maxResults |-> 0, fetched |-> 0,
               threw |-> FALSE, result |-> 0]

\* The caps fetchEmails hands to getRecentMessages.
ListingCaps == {RoutineMax, FallbackInitialMax, InitialSyncMax}

\* The number of identifiers on a page: none, one, as many as asked for, one
\* more than asked for.
PageSizes(maxResults) == {0, 1, maxResults, maxResults + 1}

InitPaging ==
    /\ log = <<>>
    /\ tokenTable = <<NewToken(1)>>
    /\ emailTable = <<>>
    /\ attachmentTable = {}
    /\ driveFolders = <<>>
    /\ driveFiles = <<>>
    /\ oauth2Client = NoCredentials
    /\ \E maxMessages \in ListingCaps :
          round = [r \in Rounds |-> [NewListing EXCEPT !.maxMessages = maxMessages]]

\* Mutant of LoopEnds: an empty page does not end the loop.
LoopEndsWithoutEmptyPageBreak(totalFetched, maxMessages, nextPageToken, fetched) ==
    \/ totalFetched >= maxMessages \/ ~nextPageToken
    \/ ~(nextPageToken /\ totalFetched < maxMessages)

\* getRecentMessages: the `break` and the `while` condition of the do-while.
LoopEnds(totalFetched, maxMessages, nextPageToken, fetched) ==
    \/ totalFetched >= maxMessages \/ ~nextPageToken \/ fetched = 0
    \/ ~(nextPageToken /\ totalFetched < maxMessages)

\* getRecentMessages: gmail.users.messages.list is called.
ListRequest(r) ==
    LET rd == round[r] IN
    /\ rd.pc = "request"
    /\ Set(r, [rd EXCEPT !.pc = "await",
                         !.maxResults = Min(batchSize, rd.maxMessages - rd.totalFetched)])
    /\ UNCHANGED <<log, tokenTable, emailTable, attachmentTable, driveFolders, driveFiles, oauth2Client>>

\* getRecentMessages: the request throws (the catch returns []) or answers
\* with a page and possibly a nextPageToken.
ListResponse(r) ==
    LET rd == round[r] IN
    /\ rd.pc = "await"
    /\ \E ok \in BOOLEAN, n \in PageSizes(rd.maxResults), tok \in BOOLEAN :
          IF ~ok
          THEN Set(r, [rd EXCEPT !.pc = "returned", !.threw = TRUE, !.result = 0])
          ELSE LET got == [rd EXCEPT !.totalFetched = @ + n, !.fetched = n,
                                     !.nextPageToken = tok]
               IN  IF LoopEnds(got.totalFetched, got.maxMessages, tok, n)
                   THEN Set(r, [got EXCEPT !.pc = "returned", !.result = got.totalFetched])
                   ELSE Set(r, [got EXCEPT !.pc = "request"])
    /\ UNCHANGED <<log, tokenTable, emailTable, attachmentTable, driveFolders, driveFiles, oauth2Client>>

PagingStep(r) == ListRequest(r) \/ ListResponse(r)

NextPaging == PagingStep(1)

\* Every await of the running call returns, with an answer or an error.
FairPaging == WF_vars(PagingStep(1))

SpecPaging == InitPaging /\ [][NextPaging]_vars /\ FairPaging

\* ------------------------------------------------------------------ claims
\* The Email rows of a message identifier.
EmailRows(m) == {i \in 1 .. Len(emailTable) : emailTable[i].messageId = m}

\* The Attachment rows of a message identifier.
AttachmentsOf(m) ==
    {a \in attachmentTable : \E i \in EmailRows(m) : emailTable[i].id = a.emailId}

\* The file names a run of processMessage can record for a message.
AttachmentNames(m) ==
    {p.filename : p \in {q \in Range(extractParts(Payload(m))) : isAttachment(q)}}

\* The candidates for which processMessage has returned in a round.
Processed(rd) ==
    {rd.messageIds[i] : i \in 1 .. (IF rd.pc = "done" THEN rd.idx ELSE rd.idx - 1)}

\* The positions inside processAttachments.
AttachmentPcs == {"extract", "attauth", "fsearch", "fcreate", "subfolder", "upload", "store"}

\* The cursor stored for the account a round works on.
Stored(rd) ==
    LET i == CHOOSE j \in 1 .. Len(tokenTable) : tokenTable[j].id = token(rd).id
    IN  tokenTable[i].historyId

IsRootFolder(f) ==
    /\ f \in 1 .. Len(driveFolders)
    /\ driveFolders[f].name = RootFolderName
    /\ driveFolders[f].parent = 0

\* C1: however two runs of processMessage for one identifier interleave, the
\* identifier has at most one Email row, exactly one once a run returned
\* without logging a failure, and every attachment of the message is recorded
\* at most once, as a single run records it.
C1_Idempotent ==
    \A m \in Range(log) :
        /\ Cardinality(EmailRows(m)) <= 1
        /\ \A r \in Rounds :
              (m \in Processed(round[r]) /\ "msg" \notin round[r].faults)
                  => Cardinality(EmailRows(m)) = 1
        /\ \A a, b \in AttachmentsOf(m) : a.fileName = b.fileName => a = b
        /\ {a.fileName : a \in AttachmentsOf(m)} \subseteq AttachmentNames(m)

\* A run created the row and recorded both attachments while the other run,
\* past its existence check, is about to create the same identifier.
C1_Witness ==
    \E m \in Range(log) :
        /\ m \in Processed(round[1])
        /\ round[2].pc = "create" /\ Cur(round[2]) = m
        /\ Cardinality(EmailRows(m)) = 1
        /\ Cardinality(AttachmentsOf(m)) = 2

\* C2: a scheduled and a push-triggered round over the same account never
\* leave two Email rows for an identifier and leave exactly one when both
\* listed it and one of them processed it without failure; a running round
\* can always take its next step, and no exception leaves fetchEmails.
C2_ConcurrentRounds ==
    /\ \A r \in Rounds :
          /\ round[r].pc # "escaped"
          /\ round[r].pc # "idle" => ENABLED SyncStep(r)
    /\ \A m \in Range(log) :
          /\ Cardinality(EmailRows(m)) <= 1
          /\ ( /\ \A r \in Rounds : round[r].pc = "done" /\ m \in Range(round[r].messageIds)
               /\ \E r \in Rounds : "msg" \notin round[r].faults )
             => Cardinality(EmailRows(m)) = 1

\* Both rounds ran to the end with the same candidate, which has one row.
C2_Witness ==
    \E m \in Range(log) :
        /\ round[1].kind = "cron" /\ round[2].kind = "push"
        /\ \A r \in Rounds : round[r].pc = "done" /\ m \in Range(round[r].messageIds)
        /\ Cardinality(EmailRows(m)) = 1

\* C3: every Attachment row links a file that was created in the object store
\* and made public; a file whose permission grant failed has no row.
C3_AttachmentUploaded ==
    /\ \A a \in attachmentTable :
          /\ a.driveLink \in 1 .. Len(driveFiles)
          /\ driveFiles[a.driveLink].public
          /\ driveFiles[a.driveLink].name = a.fileName
    /\ \A r \in Rounds : \A i \in 1 .. Len(round[r].results) :
          /\ round[r].results[i].fileId \in 1 .. Len(driveFiles)
          /\ driveFiles[round[r].results[i].fileId].public

\* One attachment is recorded, another's permission grant failed and it has
\* no row although the batch is over.
C3_Witness ==
    /\ \A r \in Rounds : round[r].pc = "idle"
    /\ attachmentTable # {}
    /\ \E f \in 1 .. Len(driveFiles) :
          /\ ~driveFiles[f].public
          /\ \A a \in attachmentTable : a.driveLink # f

\* C4: attachment processing of a message starts only after its Email row
\* exists; every file uploaded belongs to a message with an Email row, and
\* every Attachment row references an existing Email row.
C4_EmailBeforeAttachments ==
    /\ \A r \in Rounds :
          round[r].pc \in AttachmentPcs => EmailRows(Cur(round[r])) # {}
    /\ \A f \in 1 .. Len(driveFiles) : EmailRows(driveFiles[f].data[2]) # {}
    /\ \A a \in attachmentTable :
          \E i \in 1 .. Len(emailTable) : emailTable[i].id = a.emailId

\* In the middle of a batch: one attachment is uploaded, the next is not, and
\* the message has its Email row and no Attachment row yet.
C4_Witness ==
    \E r \in Rounds :
        /\ round[r].pc = "upload" /\ round[r].k = 2
        /\ Len(round[r].results) = 1
        /\ EmailRows(Cur(round[r])) # {}
        /\ AttachmentsOf(Cur(round[r])) = {}

\* C5: a round whose discovery produced N candidates runs processMessage for
\* each of them, in listing order, whatever fails on the way; no failure of a
\* message ends the loop or leaves fetchEmails.
C5_AllCandidatesAttempted ==
    \A r \in Rounds :
        LET rd == round[r] IN
        /\ rd.pc # "escaped"
        /\ rd.idx <= Len(rd.messageIds)
        /\ (rd.pc = "done" /\ "auth" \notin rd.faults) => rd.idx = Len(rd.messageIds)
        /\ (rd.pc \in AttachmentPcs \cup {"check", "get", "create"}) => rd.idx >= 1
        /\ (rd.pc \notin {"idle", "auth", "list"} /\ rd.faults \cap {"auth", "list"} = {})
              => rd.messageIds = MailboxListing(log)

\* The first candidate failed (no row), the second was still stored.
C5_Witness ==
    \E r \in Rounds :
        LET rd == round[r] IN
        /\ rd.pc = "done" /\ Len(rd.messageIds) = 2 /\ rd.idx = 2
        /\ "msg" \in rd.faults
        /\ EmailRows(rd.messageIds[1]) = {}
        /\ EmailRows(rd.messageIds[2]) # {}

\* C6 as claimed: every round over an account without cursor whose listing
\* and remote calls succeeded has registered a watch and leaves the watch's
\* cursor stored.
C6_AnyRoundRegistersWatch ==
    \A r \in Rounds :
        LET rd == round[r] IN
        (rd.pc = "done" /\ rd.path = "backfill" /\ token(rd).historyId = NoCursor
            /\ rd.faults = {})
        => (rd.resCursor # NoCursor /\ Stored(rd) = rd.resCursor)

C6_Registered ==
    \A r \in Rounds :
        LET rd == round[r] IN
        (rd.pc = "done" /\ rd.path = "backfill" /\ rd.faults = {})
        => (isInitialSync(rd) <=> rd.resCursor # NoCursor)

C6_WatchStored ==
    \A r \in Rounds :
        /\ (round[r].pc = "wwrite" /\ round'[r].pc # "wwrite")
              => (Stored(round[r]))' = round[r].resCursor
        /\ (round[r].kind \in {"cron", "push"} /\ round[r].path # "history"
              /\ round'[r] # round[r])
              => tokenTable' = tokenTable

\* C6, amended: over an account without cursor, an initial-sync round whose
\* listing and remote calls succeeded has registered a watch and stored the
\* cursor the watch returned; a routine round registers no watch and writes
\* no cursor.
C6_InitialSyncRegistersWatch == [] C6_Registered /\ [][C6_WatchStored]_vars

\* An initial-sync round over an account without cursor ended with the
\* watch's cursor stored.
C6_Witness ==
    \E r \in Rounds :
        LET rd == round[r] IN
        /\ rd.pc = "done" /\ isInitialSync(rd) /\ rd.faults = {}
        /\ token(rd).historyId = NoCursor
        /\ rd.resCursor # NoCursor /\ Stored(rd) = rd.resCursor

\* A capped listing of the mailbox taken when it held at least `least` messages.
IsListing(ids, least, cap) ==
    /\ Len(ids) <= cap
    /\ \E n \in least .. Len(log) : ids = MailboxListing(SubSeq(log, 1, n))

C7_FallbackCandidates ==
    \A r \in Rounds :
        LET rd == round[r] IN
        (rd.path = "fallback" /\ rd.pc # "list" /\ "list" \notin rd.faults)
        => IsListing(rd.messageIds, token(rd).historyId - 1, RoutineMax)

C7_CursorKept ==
    \A r \in Rounds :
        ((round[r].path = "fallback" \/ round'[r].path = "fallback")
            /\ round'[r] # round[r])
        => tokenTable' = tokenTable

\* C7: after a failed history listing a routine round takes its candidates
\* from the capped full listing, and no step of that round, from the failure
\* to its end, changes the stored cursor.
C7_FallbackKeepsCursor == [] C7_FallbackCandidates /\ [][C7_CursorKept]_vars

\* A round fell back to the listing, got candidates and ended with the
\* cursor it started from still stored.
C7_Witness ==
    \E r \in Rounds :
        LET rd == round[r] IN
        /\ rd.pc = "done" /\ rd.path = "fallback"
        /\ rd.messageIds # <<>>
        /\ Stored(rd) = token(rd).historyId

C8_HistoryCandidates ==
    \A r \in Rounds :
        LET rd == round[r] IN
        (rd.path = "history" /\ rd.pc # "history")
        => /\ rd.resCursor \in token(rd).historyId .. (Len(log) + 1)
           /\ rd.messageIds = SubSeq(log, token(rd).historyId, rd.resCursor - 1)

C8_CursorAdvanced ==
    \A r \in Rounds :
        (round[r].pc = "hwrite" /\ round'[r].pc # "hwrite")
        => (Stored(round[r]))' = round[r].resCursor

\* C8: after a successful history listing the candidates are the identifiers
\* added to the change log between the stored cursor and the cursor the
\* listing returned, in log order, and the round stores the returned cursor.
C8_HistoryAdvancesCursor == [] C8_HistoryCandidates /\ [][C8_CursorAdvanced]_vars

\* A history round found two added messages and stored the listing's cursor.
C8_Witness ==
    \E r \in Rounds :
        LET rd == round[r] IN
        /\ rd.path = "history" /\ rd.pc = "done"
        /\ Len(rd.messageIds) = 2
        /\ Stored(rd) = rd.resCursor

\* C9: no write to an account's historyId stores an older cursor than the
\* one it replaces.
C9_CursorNeverMovesBack ==
    [][\A i \in 1 .. Len(tokenTable) :
          tokenTable'[i].historyId >= tokenTable[i].historyId]_vars

\* The number of attachment parts of the message a file was uploaded for.
AttachmentCount(m) ==
    Cardinality({i \in 1 .. Len(extractParts(Payload(m))) :
                    isAttachment(extractParts(Payload(m))[i])})

\* C10 as claimed: the attachment of a message with one attachment is in the
\* root folder, those of a message with several are in one subfolder.
C10_FolderByAttachmentCount ==
    \A f \in 1 .. Len(driveFiles) :
        LET m == driveFiles[f].data[2] IN
        /\ AttachmentCount(m) = 1 => IsRootFolder(driveFiles[f].parent)
        /\ AttachmentCount(m) > 1 => ~IsRootFolder(driveFiles[f].parent)

\* C10, amended: a batch of one downloaded attachment is uploaded into the
\* root folder; a batch of several goes into one folder, a subfolder created
\* for that message under the root folder, or the root folder itself when the
\* creation failed; no folder but a root folder holds files of two messages.
C10_FolderByBatch ==
    /\ \A r \in Rounds :
          LET rd == round[r] IN
          rd.pc \in {"upload", "store"} =>
              /\ IsRootFolder(rd.mainFolderId)
              /\ Len(rd.attachments) = 1 => rd.targetFolderId = rd.mainFolderId
              /\ rd.targetFolderId # rd.mainFolderId =>
                    /\ Len(rd.attachments) > 1
                    /\ driveFolders[rd.targetFolderId].parent = rd.mainFolderId
                    /\ driveFolders[rd.targetFolderId].name =
                          sanitizeFolderName(SubjectOf(Cur(rd)))
              /\ \A f \in 1 .. Len(driveFiles) :
                    driveFiles[f].data[2] = Cur(rd)
                        => driveFiles[f].parent = rd.targetFolderId
    /\ \A f, g \in 1 .. Len(driveFiles) :
          /\ driveFiles[f].data[2] = driveFiles[g].data[2]
                => driveFiles[f].parent = driveFiles[g].parent
          /\ (driveFiles[f].parent = driveFiles[g].parent
                /\ ~IsRootFolder(driveFiles[f].parent))
                => driveFiles[f].data[2] = driveFiles[g].data[2]

\* Two attachments of one message are in its subfolder, the single
\* attachment of another message is in the root folder.
C10_Witness ==
    \E r \in Rounds :
        LET rd == round[r] IN
        /\ rd.pc = "store" /\ Len(rd.attachments) = 2
        /\ rd.targetFolderId # rd.mainFolderId
        /\ Cardinality({f \in 1 .. Len(driveFiles) :
                           driveFiles[f].parent = rd.targetFolderId}) = 2
        /\ \E f \in 1 .. Len(driveFiles) :
              /\ IsRootFolder(driveFiles[f].parent)
              /\ AttachmentCount(driveFiles[f].data[2]) = 1

\* A round is inside processMessage for its current candidate.
InMessage(rd) == rd.pc \in AttachmentPcs \cup {"check", "get", "create"}

C11_NoUploadPath ==
    \A m \in Range(log) :
        AttachmentCount(m) = 0 =>
            /\ AttachmentsOf(m) = {}
            /\ \A f \in 1 .. Len(driveFiles) : driveFiles[f].data[2] # m
            /\ \A r \in Rounds :
                  /\ (InMessage(round[r]) /\ Cur(round[r]) = m)
                        => round[r].pc \in {"check", "get", "create", "extract"}
                  /\ (m \in Processed(round[r]) /\ round[r].faults = {})
                        => Cardinality(EmailRows(m)) = 1

C11_NoStoreCall ==
    \A r \in Rounds :
        (InMessage(round[r]) /\ AttachmentCount(Cur(round[r])) = 0
            /\ round'[r] # round[r])
        => UNCHANGED <<attachmentTable, driveFolders, driveFiles>>

\* C11: ingesting a message none of whose parts is an attachment creates its
\* Email row and no Attachment row, and no step of that ingestion searches or
\* creates a folder, creates a file or grants a permission.
C11_PlainMessageNoUpload == [] C11_NoUploadPath /\ [][C11_NoStoreCall]_vars

\* A round ingested the message without attachments: it has its Email row,
\* while the object store holds only the files of the other message.
C11_Witness ==
    \E r \in Rounds : \E m \in Range(log) :
        /\ AttachmentCount(m) = 0
        /\ m \in Processed(round[r]) /\ round[r].faults = {}
        /\ Cardinality(EmailRows(m)) = 1
        /\ AttachmentsOf(m) = {}
        /\ driveFiles # <<>>

\* The positions of processAttachments after the downloads.
UploadPcs == AttachmentPcs \ {"extract"}

\* The file names of the attachment parts of a message whose download did
\* not fail, in part order.
KeptNames(m, skipped) ==
    LET kept == SelectSeq(extractParts(Payload(m)),
                          LAMBDA p : isAttachment(p) /\ p.body.attachmentId \notin skipped)
    IN  [i \in 1 .. Len(kept) |-> kept[i].filename]

C12_DownloadedKept ==
    \A r \in Rounds :
        LET rd == round[r] IN
        /\ rd.pc # "escaped"
        /\ rd.pc = "extract" =>
              \A failed \in SUBSET AttachmentRefs(Cur(rd)) :
                  failed # AttachmentRefs(Cur(rd)) =>
                      ENABLED (ExtractAttachments(r) /\ round'[r].pc = "attauth"
                                 /\ round'[r].skipped = failed)
        /\ rd.pc \in UploadPcs =>
              /\ EmailRows(Cur(rd)) # {}
              /\ rd.skipped \subseteq AttachmentRefs(Cur(rd))
              /\ Len(rd.attachments) = AttachmentCount(Cur(rd)) - Cardinality(rd.skipped)
              /\ [i \in 1 .. Len(rd.attachments) |-> rd.attachments[i].fileName]
                    = KeptNames(Cur(rd), rd.skipped)

C12_RecordsOfDownloaded ==
    \A r \in Rounds : \A m \in Range(log) :
        LET rd == round[r] IN
        ( /\ rd.pc = "store" /\ Cur(rd) = m /\ rd.k = Len(rd.results)
          /\ Len(rd.results) = Len(rd.attachments)
          /\ round'[r] # rd /\ "store" \notin round'[r].faults )
        => /\ Cardinality(AttachmentsOf(m)') = AttachmentCount(m) - Cardinality(rd.skipped)
           /\ {a.fileName : a \in AttachmentsOf(m)'} = Range(KeptNames(m, rd.skipped))
           /\ Cardinality(EmailRows(m)') = 1
           /\ round'[r].pc \in {"check", "done"}

\* C12: of the n attachments of a message, the n-k whose download succeeded
\* are kept in part order whichever k downloads fail, and once all of them
\* are uploaded and recorded the message has its Email row and exactly those
\* n-k Attachment rows; processMessage returns to the candidate loop.
C12_FailedDownloadSkipped == [] C12_DownloadedKept /\ [][C12_RecordsOfDownloaded]_vars

\* The first attachment's download failed; the second was downloaded,
\* uploaded and is the only Attachment row of the message.
C12_Witness ==
    \E r \in Rounds : \E m \in Range(log) :
        /\ AttachmentCount(m) = 2
        /\ m \in Processed(round[r]) /\ round[r].faults = {}
        /\ {a.fileName : a \in AttachmentsOf(m)} = {"b.png"}
        /\ \A f \in 1 .. Len(driveFiles) : driveFiles[f].data[2] = m => driveFiles[f].name = "b.png"

\* The leaf parts processMessage and extractAttachments classify.
LeafParts(m) == Range(extractParts(Payload(m)))

HasReference(p) == p.body.attachmentId # ""

HasDispositionHeader(p) ==
    \E i \in 1 .. Len(p.headers) : ToLower(p.headers[i].name) = "content-disposition"

HasAttachmentDisposition(p) ==
    \E i \in 1 .. Len(p.headers) :
        /\ ToLower(p.headers[i].name) = "content-disposition"
        /\ IncludesAttachment(p.headers[i].value)

HasNameAndSize(p) == p.filename # "" /\ p.body.size > 0

\* C13: isAttachment is true for every part with an attachment reference,
\* true for a part without reference and disposition header that has a
\* filename and a positive size, and false for a part without reference,
\* without attachment disposition and without both filename and size.
C13_Classifier ==
    \A m \in Range(log) : \A p \in LeafParts(m) :
        /\ HasReference(p) => isAttachment(p)
        /\ (~HasReference(p) /\ ~HasDispositionHeader(p) /\ HasNameAndSize(p))
              => isAttachment(p)
        /\ (~HasReference(p) /\ ~HasAttachmentDisposition(p) /\ ~HasNameAndSize(p))
              => ~isAttachment(p)

\* A round ingested a message whose only part has nothing but a filename and
\* a positive size, and another whose part has a reference under an inline
\* disposition is classified as an attachment too.
C13_Witness ==
    \E r \in Rounds : \E m \in Range(log) :
        LET p == Payload(m) IN
        /\ m \in LeafIds /\ m \in Processed(round[r])
        /\ EmailRows(m) # {}
        /\ ~HasReference(p) /\ ~HasDispositionHeader(p) /\ HasNameAndSize(p)
        /\ isAttachment(p)

RECURSIVE ChildlessParts(_)
\* The parts of a tree that have no child parts, depth first, left to right.
ChildlessParts(part) ==
    IF part.parts = <<>> THEN <<part>>
    ELSE LET F[i \in 0 .. Len(part.parts)] ==
                 IF i = 0 THEN <<>> ELSE F[i - 1] \o ChildlessParts(part.parts[i])
         IN  F[Len(part.parts)]

\* C14 as claimed: extractParts returns exactly the parts without child
\* parts, each once, depth first and left to right; a leaf gives itself.
C14_ExactlyChildlessParts ==
    \A r \in Rounds :
        round[r].pc \in AttachmentPcs \cup {"create"}
            => extractParts(Payload(Cur(round[r]))) = ChildlessParts(Payload(Cur(round[r])))

\* A handler is running: it holds the accounts it read with findMany.
InHandler(rd) == rd.pc \notin {"idle", "findmany"}

C15_RoundEndsNormally ==
    \A r \in Rounds :
        LET rd == round[r] IN
        /\ rd.pc # "escaped"
        /\ InHandler(rd) =>
              /\ [i \in 1 .. Len(rd.snap) |-> rd.snap[i].id]
                    = [i \in 1 .. Len(tokenTable) |-> tokenTable[i].id]
              /\ rd.ti \in 1 .. Len(rd.snap)
        /\ rd.pc = "done" => ENABLED NextToken(r)
        /\ rd.faults \cap {"auth", "list"} # {} => rd.pc \in {"done", "check"} \cup {"get", "create"} \cup AttachmentPcs

C15_NextAccountStarted ==
    \A r \in Rounds :
        LET rd == round[r] IN
        /\ (InHandler(rd) /\ round'[r].ti # rd.ti)
              => /\ rd.pc = "done"
                 /\ IF rd.ti < Len(rd.snap)
                    THEN /\ round'[r].pc = "auth" /\ round'[r].ti = rd.ti + 1
                         /\ round'[r].snap = rd.snap /\ round'[r].kind = rd.kind
                    ELSE round'[r] = IdleRound
        /\ (rd.pc = "auth" /\ round'[r] # rd /\ "auth" \in round'[r].faults)
              => /\ round'[r].pc = "done" /\ round'[r].ti = rd.ti
                 /\ UNCHANGED <<tokenTable, emailTable, attachmentTable, driveFolders, driveFiles>>

\* C15: no failure of an account's round leaves fetchEmails; the round ends,
\* and the handler goes on with the next account of the tick, ending only
\* after the round of the last account.
C15_AccountFailureIsolated == [] C15_RoundEndsNormally /\ [][C15_NextAccountStarted]_vars

\* The tick is in the second account's round and ingested its message,
\* although the first account's round ended without its message.
C15_Witness ==
    /\ round[1].kind = "cron" /\ round[1].ti = 2 /\ round[1].pc = "done"
    /\ round[2].pc = "idle"
    /\ EmailRows(3) = {} /\ EmailRows(7) # {}
    /\ emailTable[1].messageId = 7

C16_PushRound ==
    \A r \in Rounds :
        LET rd == round[r] IN
        /\ rd.pc = "findmany" =>
              /\ rd.kind = "push" /\ rd.data \in PushData
              /\ ENABLED (FindTokens(r) /\ round'[r].pc = "auth"
                            /\ round'[r].snap = tokenTable /\ round'[r].ti = 1)
        /\ (rd.kind = "push" /\ InHandler(rd)) =>
              /\ ~isInitialSync(rd)
              /\ rd.pc \notin {"watch", "wwrite"}
              /\ [i \in 1 .. Len(rd.snap) |-> rd.snap[i].id]
                    = [i \in 1 .. Len(tokenTable) |-> tokenTable[i].id]

C16_PushStartsEveryAccount ==
    \A r \in Rounds :
        LET rd == round[r] IN
        /\ (rd.pc = "findmany" /\ round'[r] # rd)
              => /\ round'[r].pc = "auth" /\ round'[r].ti = 1
                 /\ round'[r].snap = tokenTable
                 /\ round'[r].kind = "push" /\ round'[r].data = rd.data
        /\ (rd.kind = "push" /\ rd.pc = "done" /\ rd.ti < Len(rd.snap) /\ round'[r] # rd)
              => /\ round'[r].pc = "auth" /\ round'[r].ti = rd.ti + 1
                 /\ round'[r].kind = "push" /\ round'[r].data = rd.data

\* C16: whatever the data field of a notification holds, handlePushNotification
\* reads all accounts and starts a non-initial round for each of them, one
\* after another.
C16_PayloadNeverGates == [] C16_PushRound /\ [][C16_PushStartsEveryAccount]_vars

\* A notification whose data is absent or not base64 JSON led to a round for
\* the second account that ingested its message.
C16_Witness ==
    /\ round[2].kind = "push" /\ round[2].data \in {"garbage", "absent"}
    /\ round[2].ti = 2 /\ round[2].pc = "done"
    /\ 7 \in Processed(round[2]) /\ round[2].faults = {}
    /\ round[1].pc = "idle"
    /\ EmailRows(7) # {}

\* C17 as claimed: the attachments of a message are uploaded with the
\* credential, and into the object store, of the account in whose round the
\* message was discovered.
C17_OwnCredential ==
    /\ \A r \in Rounds :
          round[r].pc \in {"fsearch", "fcreate", "subfolder", "upload", "store"}
              => round[r].driveToken = token(round[r]).id
    /\ \A f \in 1 .. Len(driveFiles) : driveFiles[f].owner = Owner(driveFiles[f].data[2])

\* C18 as claimed: a round changes the stored cursor only when its discovery
\* listing returned successfully; a round whose history listing or backfill
\* listing failed never changes it.
C18_CursorOnlyAfterListing ==
    [][\A r \in Rounds :
          (round'[r] # round[r] /\ tokenTable' # tokenTable)
              => ("list" \notin round[r].faults /\ round[r].path # "fallback")]_vars

\* The file names of the first n upload results of a round.
ResultNames(rd, n) == {rd.results[i].fileName : i \in 1 .. n}

C19_ResultsAreUploads ==
    \A r \in Rounds :
        LET rd == round[r] IN
        /\ rd.pc \in {"upload", "store"} =>
              /\ Len(rd.results) <= Len(rd.attachments)
              /\ \A i \in 1 .. Len(rd.results) :
                    LET f == rd.results[i].fileId IN
                    /\ f \in 1 .. Len(driveFiles)
                    /\ driveFiles[f].public
                    /\ driveFiles[f].name = rd.results[i].fileName
                    /\ driveFiles[f].parent = rd.targetFolderId
                    /\ \E j \in 1 .. Len(rd.attachments) :
                          rd.attachments[j].fileName = rd.results[i].fileName
              /\ Cardinality(EmailRows(Cur(rd))) = 1
        /\ rd.pc = "upload" =>
              /\ rd.k \in 1 .. Len(rd.attachments)
              /\ Len(rd.results) < rd.k
              /\ AttachmentsOf(Cur(rd)) = {}
        /\ rd.pc = "store" =>
              /\ rd.k \in 1 .. Len(rd.results)
              /\ {a.fileName : a \in AttachmentsOf(Cur(rd))} \subseteq ResultNames(rd, rd.k - 1)
              /\ "store" \notin rd.faults
                    => {a.fileName : a \in AttachmentsOf(Cur(rd))} = ResultNames(rd, rd.k - 1)

C19_BatchContinues ==
    \A r \in Rounds : \A m \in Range(log) :
        LET rd == round[r] IN
        /\ (rd.pc = "upload" /\ round'[r] # rd)
              => /\ UNCHANGED <<emailTable, attachmentTable>>
                 /\ IF rd.k < Len(rd.attachments)
                    THEN /\ round'[r].pc = "upload" /\ round'[r].k = rd.k + 1
                         /\ round'[r].attachments = rd.attachments
                         /\ Len(round'[r].results) \in {Len(rd.results), Len(rd.results) + 1}
                    ELSE \/ round'[r].pc = "store" /\ round'[r].k = 1
                            /\ Len(round'[r].results) \in {Len(rd.results), Len(rd.results) + 1}
                            /\ round'[r].results # <<>>
                         \/ round'[r].pc \in {"check", "done"} /\ rd.results = <<>>
        /\ (rd.pc = "store" /\ Cur(rd) = m /\ round'[r] # rd)
              => /\ emailTable' = emailTable
                 /\ "store" \notin round'[r].faults
                       => {a.fileName : a \in AttachmentsOf(m)'} = ResultNames(rd, rd.k)
                 /\ IF rd.k < Len(rd.results)
                    THEN round'[r].pc = "store" /\ round'[r].k = rd.k + 1
                    ELSE round'[r].pc \in {"check", "done"}

\* C19: a failed upload adds no result and so no Attachment row; the loop
\* goes on with every remaining attachment, each successful upload is
\* recorded afterwards, and no step of the batch changes the Email rows.
C19_FailedUploadSkipped == [] C19_ResultsAreUploads /\ [][C19_BatchContinues]_vars

\* The upload of the first attachment failed at the permission grant; the
\* second was uploaded afterwards and is the message's only Attachment row.
C19_Witness ==
    \E r \in Rounds : \E m \in Range(log) :
        /\ m \in Processed(round[r])
        /\ Cardinality(EmailRows(m)) = 1
        /\ {a.fileName : a \in AttachmentsOf(m)} = {"b.png"}
        /\ \E f, g \in 1 .. Len(driveFiles) :
              /\ f < g
              /\ driveFiles[f].data[2] = m /\ driveFiles[f].name = "a.pdf"
              /\ ~driveFiles[f].public
              /\ driveFiles[g].data[2] = m /\ driveFiles[g].name = "b.png"
              /\ driveFiles[g].public

C20_OneRunUploads ==
    \A m \in Range(log) :
        /\ Cardinality(EmailRows(m)) <= 1
        /\ Cardinality({r \in Rounds : round[r].pc \in AttachmentPcs /\ Cur(round[r]) = m}) <= 1
        /\ \A r \in Rounds :
              (round[r].pc \in AttachmentPcs /\ Cur(round[r]) = m) => EmailRows(m) # {}

C20_RejectedRunReturns ==
    \A r \in Rounds : \A m \in Range(log) :
        LET rd == round[r] IN
        (rd.pc = "create" /\ Cur(rd) = m /\ UniqueViolation(emailTable, m)
            /\ round'[r] # rd)
        => /\ UNCHANGED <<tokenTable, emailTable, attachmentTable, driveFolders, driveFiles>>
           /\ round'[r].pc \in {"check", "done"}
           /\ round'[r].pc = "check" => round'[r].idx = rd.idx + 1
           /\ round'[r].messageIds = rd.messageIds
           /\ round'[r].attachments = <<>> /\ round'[r].results = <<>>

\* C20: a run of processMessage whose create is rejected because the
\* identifier was inserted in the meantime returns to the candidate loop; the
\* step changes no table and no object, and the run never enters attachment
\* processing for that message, which only the inserting run performs.
C20_DuplicateIsSkipped == [] C20_OneRunUploads /\ [][C20_RejectedRunReturns]_vars

\* A run passed the existence check before the other run inserted the row;
\* the other run is in the middle of its uploads while the first is about to
\* be rejected.
C20_Witness ==
    \E r, q \in Rounds : \E m \in Range(log) :
        /\ r # q
        /\ round[r].pc = "create" /\ Cur(round[r]) = m
        /\ UniqueViolation(emailTable, m)
        /\ round[q].pc = "upload" /\ Cur(round[q]) = m /\ round[q].k = 2
        /\ ENABLED (CreateEmail(r) /\ round'[r].pc \in {"check", "done"}
                      /\ "msg" \notin round'[r].faults)

C21_CheckComesFirst ==
    \A r \in Rounds :
        LET rd == round[r] IN
        /\ rd.idx <= Len(rd.messageIds)
        /\ InMessage(rd) => rd.idx \in 1 .. Len(rd.messageIds)
        /\ (rd.pc = "check" /\ EmailRows(Cur(rd)) # {})
              => ENABLED (CheckExisting(r) /\ round'[r].pc \in {"check", "done"})

C21_StopsAtExistingRow ==
    \A r \in Rounds : \A m \in Range(log) :
        LET rd == round[r] IN
        /\ (rd.pc = "check" /\ Cur(rd) = m /\ EmailRows(m) # {} /\ round'[r] # rd)
              => /\ UNCHANGED <<log, tokenTable, emailTable, attachmentTable,
                                driveFolders, driveFiles>>
                 /\ round'[r].pc \in {"check", "done"}
                 /\ round'[r].pc = "check" => round'[r].idx = rd.idx + 1
                 /\ round'[r].pc = "done" => rd.idx = Len(rd.messageIds)
                 /\ round'[r].faults = rd.faults
        /\ (round'[r].idx # rd.idx /\ round'[r].idx # 0)
              => round'[r].pc = "check"
        /\ (round'[r].pc = "get" /\ rd.pc # "get")
              => /\ rd.pc = "check" /\ round'[r].idx = rd.idx
                 /\ EmailRows(rd.messageIds[rd.idx]) = {}

\* C21: processMessage begins every candidate with the existence check, and
\* when the Email row exists that step is its last: the run goes to the next
\* candidate without a message get, a download or an upload, and no table or
\* object changes; the message is fetched only when the check found no row.
C21_ExistingIsSkipped == [] C21_CheckComesFirst /\ [][C21_StopsAtExistingRow]_vars

\* Both messages are ingested with all their attachments and no other round
\* is running: the round is at the existence check of its second candidate,
\* whose row an earlier round created.
C21_Witness ==
    /\ round[2].pc = "idle"
    /\ round[1].pc = "check" /\ round[1].idx = 2 /\ round[1].faults = {}
    /\ \A m \in Range(log) :
          /\ Cardinality(EmailRows(m)) = 1
          /\ Cardinality(AttachmentsOf(m)) = AttachmentCount(m)
    /\ driveFolders # <<>> /\ Len(driveFiles) = 3

RECURSIVE AllParts(_)
\* Every part of a tree, the root included.
AllParts(part) ==
    {part} \cup UNION {AllParts(part.parts[i]) : i \in 1 .. Len(part.parts)}

\* C22 as claimed: every part without child parts, a part with an empty child
\* list and no body included, is in the output of extractParts.
C22_ChildlessNeverDropped ==
    \A r \in Rounds :
        round[r].pc \in AttachmentPcs \cup {"create"} =>
            \A p \in AllParts(Payload(Cur(round[r]))) :
                p.parts = <<>> => p \in Range(extractParts(Payload(Cur(round[r]))))

\* The listing of a round has returned.
Listed(rd) ==
    rd.path \in {"backfill", "fallback"} /\ rd.pc \notin {"idle", "auth", "history", "list"}

\* The cap of a round's backfill listing as the claim states it.
C23_Cap(rd) == IF isInitialSync(rd) THEN 2000 ELSE 100

\* The candidates of a returned listing never outnumber the cap, and the
\* fallback listing is never one of an initial-sync round.
C23_AtMostCap ==
    \A r \in Rounds :
        Listed(round[r]) =>
            /\ Len(round[r].messageIds) <= C23_Cap(round[r])
            /\ round[r].path = "fallback" => ~isInitialSync(round[r])

\* A listing none of whose pages failed returns the newest messages of the
\* mailbox, newest first, as many as the cap allows.
C23_NewestUpToCap ==
    \A r \in Rounds :
        (round[r].pc = "list" /\ Listed(round'[r]) /\ "list" \notin round'[r].faults) =>
            /\ Len(round'[r].messageIds) = Min(C23_Cap(round[r]), Len(log))
            /\ \A i \in 1 .. Len(round'[r].messageIds) :
                  round'[r].messageIds[i] = log[Len(log) + 1 - i]

\* C23: a backfill listing returns at most 2000 identifiers in an explicit
\* initial-sync round and at most 100 in a routine round without cursor and
\* in the fallback after a failed history listing; when no page failed they
\* are the newest messages of the mailbox, newest first.
C23_ListingCapped == []C23_AtMostCap /\ [][C23_NewestUpToCap]_vars

\* A mailbox of more than 2000 messages: an initial-sync round listed 2000,
\* a mailbox of more than 100: the fallback of a routine round listed 100.
C23_Witness ==
    \E r \in Rounds :
        LET rd == round[r] IN
        /\ rd.pc = "done"
        /\ \/ isInitialSync(rd) /\ Len(log) > 2000 /\ Len(rd.messageIds) = 2000
           \/ rd.path = "fallback" /\ Len(log) > 100 /\ Len(rd.messageIds) = 100

\* The folders getOrCreateAttachmentsFolder has created.
RootFolders == {f \in 1 .. Len(driveFolders) : IsRootFolder(f)}

\* C24: calls of getOrCreateAttachmentsFolder that follow one another leave
\* at most one root folder in the store, and each call that returns hands out
\* the locator of that root folder.
C24_SameRootLocator ==
    /\ Cardinality(RootFolders) <= 1
    /\ \A r \in Rounds :
          round[r].pc \in {"subfolder", "upload", "store"} =>
              round[r].mainFolderId \in RootFolders

\* The subject of the message a round is working on.
C25_Subject(rd) == SubjectOf(Cur(rd))

\* createEmailFolder has returned in this step of round r.
C25_Returned(r) == round[r].pc = "subfolder" /\ round'[r].pc # "subfolder"

\* The subfolder is named with the subject stripped of the illegal characters
\* and cut to 100 characters, nothing else done to it.
C25_StrippedAndTruncated ==
    \A r \in Rounds :
        (C25_Returned(r) /\ driveFolders' # driveFolders) =>
            driveFolders'[Len(driveFolders')].name =
                Substring(RemoveIllegal(C25_Subject(round[r])), 100)

\* C25 as stated, without the trimming: every subfolder is named with the
\* stripped and truncated subject.
C25_NameWithoutTrim == [][C25_StrippedAndTruncated]_vars

\* The name as the code builds it: stripped, cut to 100 characters, and then
\* trimmed of leading and trailing white space.
C25_SanitizedName ==
    \A r \in Rounds :
        (C25_Returned(r) /\ driveFolders' # driveFolders) =>
            LET name == driveFolders'[Len(driveFolders')].name IN
            /\ driveFolders' = Append(driveFolders,
                                      [name |-> name, parent |-> round[r].mainFolderId,
                                       owner |-> round[r].driveToken])
            /\ name = Trim(Substring(RemoveIllegal(C25_Subject(round[r])), 100))
            /\ Len(name) <= 100
            /\ \A i \in 1 .. Len(name) : name[i] \notin IllegalCharacters
            /\ sanitizeFolderName(name) = name
            /\ round'[r].targetFolderId = Len(driveFolders')

\* A failed creation returns the parent, and the uploads of the batch start.
C25_FallsBackToParent ==
    \A r \in Rounds :
        C25_Returned(r) =>
            /\ round'[r].pc = "upload" /\ round'[r].k = 1
            /\ round'[r].attachments = round[r].attachments
            /\ driveFolders' = driveFolders =>
                  round'[r].targetFolderId = round[r].mainFolderId

\* Every file of the batch is created in the folder createEmailFolder returned.
C25_UploadsIntoReturned ==
    \A r \in Rounds :
        (round[r].pc = "upload" /\ round'[r] # round[r] /\ driveFiles' # driveFiles) =>
            driveFiles'[Len(driveFiles')].parent = round[r].targetFolderId

\* From the subfolder step a failed creation is always possible, and it
\* leads to the uploads with the parent as target.
C25_FailureProceeds ==
    \A r \in Rounds :
        round[r].pc = "subfolder" =>
            ENABLED (/\ CreateSubfolder(r)
                     /\ driveFolders' = driveFolders
                     /\ round'[r].pc = "upload"
                     /\ round'[r].targetFolderId = round[r].mainFolderId)

\* C25: createEmailFolder names the subfolder with the subject after removing
\* the characters < > : " / \ | ? *, truncating to 100 characters and
\* trimming white space at both ends; sanitizing the name again changes
\* nothing; when the creation fails it returns the parent folder and the
\* batch's uploads proceed into the parent.
C25_SubfolderNamedOrParent ==
    /\ []C25_FailureProceeds
    /\ [][C25_SanitizedName /\ C25_FallsBackToParent /\ C25_UploadsIntoReturned]_vars

\* A subject of more than 100 legal characters has given a subfolder name of
\* exactly 100, into which the batch uploads.
C25_Witness ==
    \E r \in Rounds :
        LET rd == round[r] IN
        /\ rd.pc = "upload"
        /\ Len(rd.attachments) > 1
        /\ Len(RemoveIllegal(C25_Subject(rd))) > 100
        /\ rd.targetFolderId # rd.mainFolderId
        /\ Len(driveFolders[rd.targetFolderId].name) = 100

\* The creation failed for a batch of two and a file went into the parent.
C25_FallbackReached ==
    \E r \in Rounds :
        LET rd == round[r] IN
        /\ rd.pc = "upload" /\ rd.k = 2
        /\ Len(rd.attachments) > 1
        /\ rd.targetFolderId = rd.mainFolderId
        /\ \E f \in 1 .. Len(driveFiles) :
              driveFiles[f].data[2] = Cur(rd) /\ driveFiles[f].parent = rd.mainFolderId

\* The spellings of a header name among the headers in use.
C26_Spellings(field) ==
    CASE field = "Subject" -> {"Subject", "subject", "SUBJECT"}
      [] field = "From" -> {"From", "from"}
      [] field = "To" -> {"To", "TO"}
      [] field = "Cc" -> {"Cc", "cc"}
      [] OTHER -> {"Bcc", "BCC"}

\* The value of the first header of message m named as the field, the empty
\* text when there is none.
C26_FirstHeader(m, field) ==
    LET hs == Payload(m).headers
        hit == {i \in 1 .. Len(hs) : hs[i].name \in C26_Spellings(field)}
    IN  IF hit = {} THEN <<>>
        ELSE hs[CHOOSE i \in hit : \A j \in hit : i <= j].value

\* The decoded content of the last leaf of message m, in flattening order,
\* that has the media type and carries inline data; empty when there is none.
C26_LastBody(m, mime) ==
    LET parts == extractParts(Payload(m))
        hit == {i \in 1 .. Len(parts) :
                   parts[i].mimeType = mime /\ parts[i].body.data # ""}
    IN  IF hit = {} THEN ""
        ELSE DecodeBody(parts[CHOOSE i \in hit : \A j \in hit : j <= i].body.data)

\* C26: in every stored Email row each header field has the value of the
\* first header whose name matches case-insensitively (empty when none
\* does), bodyText is the decoded content of the last text/plain leaf that
\* carries inline data and bodyHtml that of the last such text/html leaf.
C26_RowFromHeadersAndLeaves ==
    \A i \in 1 .. Len(emailTable) :
        LET row == emailTable[i]
            m == row.messageId
        IN
        /\ row.subject = C26_FirstHeader(m, "Subject")
        /\ row.sender = C26_FirstHeader(m, "From")
        /\ row.recipients = C26_FirstHeader(m, "To")
        /\ row.cc = C26_FirstHeader(m, "Cc")
        /\ row.bcc = C26_FirstHeader(m, "Bcc")
        /\ row.bodyText = C26_LastBody(m, "text/plain")
        /\ row.bodyHtml = C26_LastBody(m, "text/html")

\* The row of the message whose headers repeat in other spellings and which
\* has two text/plain and two text/html leaves with data is stored.
C26_Witness ==
    \E i \in 1 .. Len(emailTable) :
        /\ emailTable[i].messageId = 50
        /\ emailTable[i].subject = <<"R", "e", " ", "A">>
        /\ emailTable[i].cc = <<"d", "@", "x">>
        /\ emailTable[i].bcc = <<>>
        /\ emailTable[i].bodyText = "last"
        /\ emailTable[i].bodyHtml = "<i>x</i>"

\* The decoded content of the last leaf of message m that has the media
\* type, carries inline data and is not classified as an attachment.
C27_LastInlineBody(m, mime) ==
    LET parts == extractParts(Payload(m))
        hit == {i \in 1 .. Len(parts) :
                   /\ parts[i].mimeType = mime
                   /\ parts[i].body.data # ""
                   /\ ~isAttachment(parts[i])}
    IN  IF hit = {} THEN ""
        ELSE DecodeBody(parts[CHOOSE i \in hit : \A j \in hit : j <= i].body.data)

\* C27: a leaf that isAttachment classifies as an attachment never sets or
\* overwrites bodyText or bodyHtml: the bodies of every stored Email row come
\* from the leaves that are not attachments.
C27_BodiesFromInlineLeaves ==
    \A i \in 1 .. Len(emailTable) :
        /\ emailTable[i].bodyText = C27_LastInlineBody(emailTable[i].messageId, "text/plain")
        /\ emailTable[i].bodyHtml = C27_LastInlineBody(emailTable[i].messageId, "text/html")

\* The handler moves to another account only from a round that has finished,
\* to the next account of its list, and starts that round from its beginning.
C28_AccountAfterAccount ==
    \A r \in Rounds :
        (InHandler(round[r]) /\ InHandler(round'[r]) /\ round'[r].ti # round[r].ti) =>
            /\ round[r].pc = "done"
            /\ round'[r].ti = round[r].ti + 1
            /\ round'[r].snap = round[r].snap
            /\ round'[r].pc = "auth"
            /\ round'[r].messageIds = <<>> /\ round'[r].idx = 0

\* A handler that ends does so from the finished round of its last account.
C28_HandlerEndsAfterLast ==
    \A r \in Rounds :
        (InHandler(round[r]) /\ round'[r].pc = "idle") =>
            round[r].pc = "done" /\ round[r].ti = Len(round[r].snap)

\* Within a round the position in the candidate list moves by one, to the
\* first step of processMessage, from a step of the previous candidate's
\* processMessage (or from the listing), and nothing of the previous
\* candidate is carried along.
C28_CandidateAfterCandidate ==
    \A r \in Rounds :
        (InHandler(round[r]) /\ round'[r].ti = round[r].ti
            /\ round'[r].idx # round[r].idx) =>
            /\ round'[r].idx = round[r].idx + 1
            /\ round'[r].pc = "check"
            /\ IF round[r].idx = 0
               THEN round[r].pc \in {"list", "history", "hwrite", "watch", "wwrite"}
               ELSE /\ InMessage(round[r])
                    /\ round'[r].messageIds = round[r].messageIds
            /\ round'[r].attachments = <<>> /\ round'[r].results = <<>>
            /\ round'[r].k = 0

\* While processMessage runs for a candidate, every earlier candidate of the
\* round has returned: its Email row exists or its failure was logged.
C28_EarlierReturned ==
    \A r \in Rounds :
        InMessage(round[r]) =>
            \A j \in 1 .. (round[r].idx - 1) :
                \/ EmailRows(round[r].messageIds[j]) # {}
                \/ "msg" \in round[r].faults

\* C28: within one invocation of handleCron or handlePushNotification the
\* accounts are processed one after another and, within a round, the
\* candidates one after another: the next round starts only after the
\* previous one finished, the next processMessage only after the previous
\* one returned.
C28_StrictlySequential ==
    /\ []C28_EarlierReturned
    /\ [][C28_AccountAfterAccount /\ C28_HandlerEndsAfterLast
            /\ C28_CandidateAfterCandidate]_vars

\* The tick works on its second account after its round for the first one
\* went through both candidates, while the push handler works on the second
\* candidate of its first account.
C28_Witness ==
    /\ round[1].kind = "cron" /\ round[1].ti = 2 /\ InMessage(round[1])
    /\ Cardinality(EmailRows(3)) = 1 /\ Cardinality(EmailRows(6)) = 1
    /\ round[2].kind = "push" /\ round[2].ti = 1 /\ round[2].idx = 2
    /\ InMessage(round[2])

\* The leaves of message m whose Content-Disposition is inline.
C29_InlineParts(m) ==
    {p \in Range(extractParts(Payload(m))) :
        \E i \in 1 .. Len(p.headers) :
            /\ ToLower(p.headers[i].name) = "content-disposition"
            /\ p.headers[i].value = "inline"}

\* C29: a part whose Content-Disposition is inline is not extracted, uploaded
\* or recorded as an Attachment, even when it carries an attachment reference
\* and a filename: no round holds its content, no file in the store has it.
C29_InlineNeverExtracted ==
    /\ \A r \in Rounds :
          round[r].pc \in AttachmentPcs \ {"extract"} =>
              \A i \in 1 .. Len(round[r].attachments) :
                  \A p \in C29_InlineParts(Cur(round[r])) :
                      round[r].attachments[i].data[3] # p.body.attachmentId
    /\ \A f \in 1 .. Len(driveFiles) :
          \A p \in C29_InlineParts(driveFiles[f].data[2]) :
              driveFiles[f].data[3] # p.body.attachmentId
    /\ \A a \in attachmentTable :
          \A p \in C29_InlineParts(emailTable[a.emailId].messageId) :
              a.fileName # p.filename

\* The expiry test as the claim states it.
C30_Due(tk, now) == tk.expiryDate <= now + 300000

\* getValidToken goes to the refresh exactly when the credential expires at
\* or before the clock's reading plus 300000 ms; otherwise it returns the
\* credential it was given, with no remote call and no write.
C30_RefreshExactlyWhenDue ==
    \A r \in Rounds :
        (round[r].pc = "have" /\ round'[r].pc # "have") =>
            /\ tokenTable' = tokenTable
            /\ round'[r].remote = 0
            /\ IF C30_Due(round[r].token, round'[r].now)
               THEN round'[r].pc = "refresh"
               ELSE round'[r].pc = "returned" /\ round'[r].result = round[r].token

\* A rejected refresh raises the error and writes nothing; the stored record
\* changes only in the update that follows an accepted refresh.
C30_RejectedLeavesRecord ==
    /\ \A r \in Rounds :
          /\ round'[r].pc = "threw" /\ round[r].pc # "threw" => tokenTable' = tokenTable
          /\ round'[r].remote # round[r].remote /\ round'[r].pc # "idle" =>
                round[r].pc = "refresh" /\ round'[r].remote = 1
    /\ tokenTable' # tokenTable =>
          \E q \in Rounds : round[q].pc = "update" /\ round'[q].pc = "returned"

\* What a caller holds when getValidToken has answered.
C30_Answer ==
    \A r \in Rounds :
        LET rd == round[r] IN
        /\ rd.pc = "returned" /\ rd.remote = 0 => rd.result = rd.token
        /\ rd.pc = "returned" /\ rd.remote = 1 =>
              /\ rd.result.accessToken # rd.token.accessToken
              /\ rd.result.id = rd.token.id
        /\ rd.pc = "returned" => (rd.remote = 1 <=> C30_Due(rd.token, rd.now))
        /\ rd.pc \in {"refresh", "update", "threw"} => C30_Due(rd.token, rd.now)
        /\ rd.pc = "refresh" =>
              ENABLED (RefreshAccessToken(r) /\ round'[r].pc = "threw"
                          /\ tokenTable' = tokenTable)

\* C30: getValidToken refreshes the credential exactly when its expiry time
\* is at or before the current time plus 300000 ms and otherwise returns the
\* credential unchanged without any remote call; a rejected refresh raises
\* an error and leaves the stored credential record unchanged.
C30_RefreshWithinBuffer ==
    /\ []C30_Answer
    /\ [][C30_RefreshExactlyWhenDue /\ C30_RejectedLeavesRecord]_vars

\* The clock read exactly the expiry less 300000 ms, the refresh was made and
\* rejected, and the stored credential is the one the caller was given.
C30_Witness ==
    \E r \in Rounds :
        /\ round[r].pc = "threw"
        /\ round[r].token.expiryDate = round[r].now + 300000
        /\ \E i \in 1 .. Len(tokenTable) : tokenTable[i] = round[r].token

\* One millisecond before the buffer begins the credential is returned as it
\* is, without a remote call.
C30_ValidReturned ==
    \E r \in Rounds :
        /\ round[r].pc = "returned" /\ round[r].remote = 0
        /\ round[r].token.expiryDate = round[r].now + 300001

\* C31: when a history listing succeeded and the cursor is advanced from c to
\* c', every message added between c and c' is among the round's candidates,
\* also when the provider answers with a first page and a next-page token.
C31_AdvanceCoversCandidates ==
    \A r \in Rounds :
        (round[r].pc = "hwrite" /\ tokenTable' # tokenTable) =>
            LET rd == round[r]
                lg == Mailbox(log, token(rd).id)
            IN  \A i \in token(rd).historyId .. (Stored(rd)' - 1) :
                    lg[i] \in Range(rd.messageIds)

C31_NoChangeLost == [][C31_AdvanceCoversCandidates]_vars

\* A history-based round is done with candidate m and m has no Email row:
\* its processing failed.
C32_FailedCandidate(m) ==
    \E r \in Rounds :
        /\ round[r].path = "history"
        /\ "msg" \in round[r].faults
        /\ m \in Processed(round[r])
        /\ EmailRows(m) = {}

\* C32: a candidate of a history-based round whose processing failed
\* transiently is eventually stored, given that rounds keep running and the
\* remote services eventually respond successfully.
C32_FailedEventuallyStored ==
    \A m \in {PlainId(n) : n \in 1 .. MaxMsgs} :
        C32_FailedCandidate(m) ~> (EmailRows(m) # {})

\* The rounds that are inside processAttachments for message m.
C33_Attaching(m) ==
    {r \in Rounds : round[r].pc \in AttachmentPcs /\ Cur(round[r]) = m}

\* The files of the object store that hold content of message m.
C33_FilesOf(m) == {f \in 1 .. Len(driveFiles) : driveFiles[f].data[2] = m}

\* processAttachments is entered only by the step that creates the Email row
\* of the identifier, which had none before.
C33_EnteredByCreator ==
    \A r \in Rounds :
        (round'[r].pc \in AttachmentPcs /\ round[r].pc \notin AttachmentPcs) =>
            /\ round[r].pc = "create"
            /\ Cur(round'[r]) = Cur(round[r])
            /\ EmailRows(Cur(round[r])) = {}
            /\ Cardinality(EmailRows(Cur(round[r]))') = 1

\* Attachment rows and files of a message appear only in steps of the run
\* that is inside processAttachments for it, and every object-store write is
\* made by such a run.
C33_OnlyCreatorWrites ==
    /\ \A m \in Range(log) :
          (AttachmentsOf(m)' # AttachmentsOf(m) \/ C33_FilesOf(m)' # C33_FilesOf(m)) =>
              C33_Attaching(m) # {}
    /\ (driveFolders' # driveFolders \/ driveFiles' # driveFiles) =>
          \E r \in Rounds : round[r].pc \in {"fcreate", "subfolder", "upload"}
                                /\ round'[r] # round[r]

\* At most one run is inside processAttachments for a message, and the Email
\* row of that message exists.
C33_SingleRun ==
    \A m \in Range(log) :
        /\ Cardinality(C33_Attaching(m)) <= 1
        /\ C33_Attaching(m) # {} => Cardinality(EmailRows(m)) = 1

\* C33: once the Email record of an identifier exists, no later ingestion of
\* it creates an Attachment record or makes an object-store call for it; the
\* Attachment set is fixed by the run that created the Email record.
C33_AttachmentsByCreatingRun ==
    /\ []C33_SingleRun
    /\ [][C33_EnteredByCreator /\ C33_OnlyCreatorWrites]_vars

\* The run that created the Email row of message 1 has recorded attachments
\* and returned, and another round is at the existence check of message 1.
C33_Witness ==
    /\ AttachmentsOf(1) # {}
    /\ C33_Attaching(1) = {}
    /\ \E r \in Rounds : round[r].pc = "check" /\ Cur(round[r]) = 1

\* C34: when every remote call succeeds, every leaf part that isAttachment
\* classifies as an attachment gives one Attachment record.  The records come
\* from the list extractAttachments returns: for a run that is about to
\* extract, some outcome of the downloads must return one entry for every
\* classified part.
C34_EveryClassifiedPartExtracted ==
    \A r \in Rounds :
        round[r].pc = "extract" =>
            ENABLED (/\ ExtractAttachments(r)
                     /\ Len(round'[r].attachments) = AttachmentCount(Cur(round[r])))

\* The cursor stored for the account is out of date.
C35_StoredCursorStale ==
    \E i \in 1 .. Len(tokenTable) :
        StaleCursor(Mailbox(log, tokenTable[i].id), tokenTable[i].historyId)

\* C35: an account whose stored cursor is stale recovers by itself: with
\* rounds that keep running and services that respond apart from rejecting
\* the stale cursor, the stored cursor is eventually replaced by a fresh
\* one (which a later round's history listing needs in order to succeed).
C35_StaleCursorRecovers == C35_StoredCursorStale ~> ~C35_StoredCursorStale

\* Message m arrived after an initial-sync round took its backfill listing
\* and before the round's watch registration has returned.
C36_ArrivedInGap(m) ==
    \E r \in Rounds :
        /\ isInitialSync(round[r])
        /\ round[r].pc = "watch"
        /\ m \in Range(log)
        /\ m \notin Range(round[r].messageIds)

\* C36: with no remote call failing, every message that arrives between the
\* backfill listing of an initial-sync round and the return of its watch
\* registration is eventually stored.
C36_GapMessageStored ==
    \A m \in {PlainId(n) : n \in 1 .. MaxMsgs} :
        C36_ArrivedInGap(m) ~> (EmailRows(m) # {})

\* C37: when a page request of the listing fails after earlier pages were
\* retrieved, the identifiers of the pages already retrieved (at least the
\* first page, the batchSize newest messages) are candidates of the round.
C37_RetrievedPagesKept ==
    [][\A r \in Rounds :
          (round[r].pc = "list" /\ "laterpage" \in round'[r].faults) =>
              \A i \in 1 .. batchSize :
                  log[Len(log) + 1 - i] \in Range(round'[r].messageIds)]_vars

\* No page request is issued with a non-positive maxResults.
C38_PositiveMaxResults ==
    round[1].pc = "await" => round[1].maxResults >= 1

\* When a request is answered the loop returns exactly when the request
\* failed, the cap is reached, no next-page token came back or the page held
\* no identifiers; a failure returns the empty list, every other end the
\* identifiers fetched.
C38_StopsWhenDue ==
    round[1].pc = "await" =>
        /\ round'[1].pc = "returned" <=>
              \/ round'[1].threw
              \/ round'[1].totalFetched >= round'[1].maxMessages
              \/ ~round'[1].nextPageToken
              \/ round'[1].fetched = 0
        /\ round'[1].pc = "returned" =>
              round'[1].result = IF round'[1].threw THEN 0 ELSE round'[1].totalFetched

\* C38: the pagination loop of getRecentMessages terminates whatever the
\* provider answers: it stops as soon as the cap is reached, no next-page
\* token is returned, a page holds no identifiers or a request fails, and
\* it never asks for a page with a non-positive maxResults.
C38_PagingTerminates ==
    /\ []C38_PositiveMaxResults
    /\ [][C38_StopsWhenDue]_vars
    /\ <>(round[1].pc = "returned")

\* The loop returned at the cap after a last request trimmed to what the cap
\* still allowed.
C38_Witness ==
    /\ round[1].pc = "returned" /\ ~round[1].threw
    /\ round[1].totalFetched >= round[1].maxMessages
    /\ round[1].maxResults >= 1 /\ round[1].maxResults < batchSize

\* C39: refreshes of two accounts that overlap in time and share the one
\* OAuth client never leave, in the credential record of one account, an
\* access token that was obtained with the other account's refresh token.
C39_OwnAccessToken ==
    \A i \in 1 .. Len(tokenTable) :
        Grant(tokenTable[i].accessToken) = tokenTable[i].id

====
